---- MODULE Spec2Model ----
(***************************************************************************)
(* A model of one bot instance of ai-telegram-bots: the ContextManager     *)
(* (two key -> context maps with TTL eviction), the MessageHandlers        *)
(* pipeline (direct messages and channel-post comments, with their         *)
(* suspension points), the prompt assembly, and the ApiService retry loop. *)
(*                                                                         *)
(* Contexts are JavaScript objects: a handler keeps a reference to the     *)
(* object it fetched while the map may drop or replace the key, so the     *)
(* model keeps a heap of context objects and the maps hold object ids.     *)
(* Time is Date.now() in milliseconds.                                     *)
(***************************************************************************)
EXTENDS Integers, Sequences, FiniteSets, TLC

(***************************************************************************)
(* Program constants (BOT_DEFAULTS of ../constants).                       *)
(***************************************************************************)
BASE_TTL_MS == 1800000
ACTIVE_TTL_MS == 7200000
MAX_LENGTH == 30
RELEVANT_LENGTH == 10
REMINDER_INTERVAL == 10
DEFAULT_RETRIES == 3
BACKOFF_BASE_MS == 1000
COMMENT_PROBABILITY == 100   \* BOT_DEFAULTS.POSTS.COMMENT_PROBABILITY, in percent

(***************************************************************************)
(* Bounds of the model.                                                    *)
(***************************************************************************)
MaxMsgs == 2          \* inbound events of a run of Spec
MaxLongMsgs == 17     \* inbound events of a run of SpecLong
MaxEpochs == 5        \* clock steps of a run, of BASE_TTL_MS each
MaxRetriesArg == 4    \* largest maxRetries argument of SpecRetry
MaxCount == 31        \* largest messageCount / history length of SpecPrompt
MaxCalls == 3         \* ContextManager calls of a run of SpecManager
MaxManagerEpochs == 2 \* clock steps of a run of SpecManager
MaxDispatchMsgs == 1  \* updates handled (not dropped) in a run of SpecDispatch
MaxDispatchEpochs == 1 \* clock steps of a run of SpecDispatch
MaxDirectMsgs == 2    \* direct messages of a run of SpecDirect
MaxWords == 3         \* words of a text of SpecDirect
MaxEventMsgs == 2     \* updates handled (not dropped) in a run of SpecEvents
MaxSweepMsgs == 2     \* inbound events of a run of SpecSweep
MaxSweepEpochs == 5   \* clock steps of a run of SpecSweep
MaxOverlapMsgs == 6   \* direct messages of a run of SpecOverlap

UserKeys == {1, 2}        \* user keys chat_user_bot
PostKeys == {101, 102}    \* post keys post_chat_message_bot, by message id
Hids == {1, 2}            \* handleIncomingMessage calls in flight at once
ObjIds == 1..(Cardinality(UserKeys) + Cardinality(PostKeys) + Cardinality(Hids))

Undefined == "undefined"
Topics == {"topic A", "topic B"}
DefaultTopic == "general topic"   \* the constant fallback label

Min(a, b) == IF a < b THEN a ELSE b

RECURSIVE Pow2(_)
Pow2(n) == IF n = 0 THEN 1 ELSE 2 * Pow2(n - 1)

\* Array.prototype.slice(-n): the last n elements (all of them when shorter).
SliceLast(s, n) == IF Len(s) <= n THEN s ELSE SubSeq(s, Len(s) - n + 1, Len(s))

\* JavaScript truthiness of an optional string.
Truthy(str) == str # Undefined /\ str # ""

(***************************************************************************)
(* ContextManager                                                          *)
(***************************************************************************)
\* createNewUserContext making the new context an active conversation.
createNewUserContext_Active(postTopic, t) ==
    [messages |-> <<>>,
     lastInteraction |-> t,
     postTopic |-> postTopic,
     messageCount |-> 0,
     activeConversation |-> TRUE]

createNewUserContext(postTopic, t) ==
    [messages |-> <<>>,
     lastInteraction |-> t,
     postTopic |-> postTopic,
     messageCount |-> 0,
     activeConversation |-> FALSE]

\* createNewUserContext handing out one shared object instead of a new one.
NewObj_Shared(hp) == Min(1, Cardinality(ObjIds))

\* `new` of a context object: the smallest id the heap does not hold.
NewObj(hp) ==
    CHOOSE o \in ObjIds \ DOMAIN hp : \A p \in ObjIds \ DOMAIN hp : o <= p

\* getUserContext setting a new context under the key at every call.
getUserContext_AlwaysNew(hp, map, userKey, t) ==
    LET o == NewObj(hp) IN
    [heap |-> hp @@ (o :> createNewUserContext(Undefined, t)),
     map |-> [k \in DOMAIN map \cup {userKey} |-> IF k = userKey THEN o ELSE map[k]],
     ref |-> o]

\* getUserContext(userKey): the heap and map after the call and the object returned.
getUserContext(hp, map, userKey, t) ==
    IF userKey \notin DOMAIN map
    THEN LET o == NewObj(hp) IN
         [heap |-> hp @@ (o :> createNewUserContext(Undefined, t)),
          map |-> map @@ (userKey :> o),
          ref |-> o]
    ELSE [heap |-> hp, map |-> map, ref |-> map[userKey]]

\* getPostContext replacing an existing context by a new one when a topic is passed.
getPostContext_Recreate(hp, map, postKey, postTopic, t) ==
    IF postKey \notin DOMAIN map
    THEN LET o == NewObj(hp) IN
         [heap |-> hp @@ (o :> createNewUserContext(postTopic, t)),
          map |-> map @@ (postKey :> o),
          ref |-> o]
    ELSE IF Truthy(postTopic)
    THEN [heap |-> [hp EXCEPT ![map[postKey]] = createNewUserContext(postTopic, t)],
          map |-> map, ref |-> map[postKey]]
    ELSE [heap |-> hp, map |-> map, ref |-> map[postKey]]

\* getPostContext(postKey, postTopic)
getPostContext(hp, map, postKey, postTopic, t) ==
    IF postKey \notin DOMAIN map
    THEN LET o == NewObj(hp) IN
         [heap |-> hp @@ (o :> createNewUserContext(postTopic, t)),
          map |-> map @@ (postKey :> o),
          ref |-> o]
    ELSE IF Truthy(postTopic)
    THEN [heap |-> [hp EXCEPT ![map[postKey]].postTopic = postTopic,
                              ![map[postKey]].lastInteraction = t],
          map |-> map, ref |-> map[postKey]]
    ELSE [heap |-> hp, map |-> map, ref |-> map[postKey]]

ContextTtl(context) ==
    IF context.activeConversation THEN ACTIVE_TTL_MS ELSE BASE_TTL_MS

\* cleanMapWithTtl comparing with >= : a context is dropped at its TTL already.
cleanMapWithTtl_AtTtl(hp, contextMap, currentTime) ==
    LET kept == {key \in DOMAIN contextMap :
                   ~(currentTime - hp[contextMap[key]].lastInteraction
                        >= ContextTtl(hp[contextMap[key]]))}
    IN [key \in kept |-> contextMap[key]]

\* cleanMapWithTtl never deleting the context of an active conversation.
cleanMapWithTtl_KeepsActive(hp, contextMap, currentTime) ==
    LET kept == {key \in DOMAIN contextMap :
                   \/ hp[contextMap[key]].activeConversation
                   \/ ~(currentTime - hp[contextMap[key]].lastInteraction > BASE_TTL_MS)}
    IN [key \in kept |-> contextMap[key]]

\* cleanMapWithTtl(contextMap, currentTime): the map without the expired keys.
cleanMapWithTtl(hp, contextMap, currentTime) ==
    LET kept == {key \in DOMAIN contextMap :
                   ~(currentTime - hp[contextMap[key]].lastInteraction
                        > ContextTtl(hp[contextMap[key]]))}
    IN [key \in kept |-> contextMap[key]]

getActiveContextsCount(users, posts) ==
    [users |-> Cardinality(DOMAIN users), posts |-> Cardinality(DOMAIN posts)]

(***************************************************************************)
(* MessageHandlers: history and prompt                                     *)
(***************************************************************************)
\* limitMessageHistory with slice(0, MAX_LENGTH): the oldest entries kept.
limitMessageHistory_KeepsOldest(context) ==
    IF Len(context.messages) > MAX_LENGTH
    THEN [context EXCEPT !.messages = SubSeq(context.messages, 1, MAX_LENGTH)]
    ELSE context

\* limitMessageHistory(context)
limitMessageHistory(context) ==
    IF Len(context.messages) > MAX_LENGTH
    THEN [context EXCEPT !.messages = SliceLast(context.messages, MAX_LENGTH)]
    ELSE context

\* getRelevantMessages with slice(0, RELEVANT_LENGTH): the oldest entries.
getRelevantMessages_Oldest(messages) ==
    IF Len(messages) <= RELEVANT_LENGTH
    THEN messages
    ELSE SubSeq(messages, 1, RELEVANT_LENGTH)

\* getRelevantMessages(messages)
getRelevantMessages(messages) ==
    IF Len(messages) <= RELEVANT_LENGTH
    THEN messages
    ELSE SliceLast(messages, RELEVANT_LENGTH)

\* A chat message {role, content}.  A content is modelled by what it was made
\* from: a tag, the id of the inbound message it belongs to, a topic, and for
\* the text of a user its words.
ChatMessage(role, tag, id, topic) ==
    [role |-> role,
     content |-> [tag |-> tag, id |-> id, topic |-> topic, words |-> <<>>]]

\* {role: "user", content: truncatedText} of processUserMessage.
UserTurn(text, id) ==
    [role |-> "user",
     content |-> [tag |-> "text", id |-> id, topic |-> "", words |-> text]]

SystemPrompt == ChatMessage("system", "SYSTEM_PROMPT", 0, "")
ReminderEntry == ChatMessage("system", "reminder", 0, "")
TopicEntry(topic) == ChatMessage("system", "topic", 0, topic)

\* prepareMessagesForApi pushing the topic entry before the reminder.
prepareMessagesForApi_TopicFirst(userContext) ==
    LET needsReminderOfRole == userContext.messageCount % REMINDER_INTERVAL = 0
    IN <<SystemPrompt>>
       \o (IF Truthy(userContext.postTopic)
           THEN <<TopicEntry(userContext.postTopic)>> ELSE <<>>)
       \o (IF needsReminderOfRole THEN <<ReminderEntry>> ELSE <<>>)
       \o getRelevantMessages(userContext.messages)

\* prepareMessagesForApi reminding on the message after each multiple of the
\* interval (messageCount % REMINDER_INTERVAL === 1).
prepareMessagesForApi_ReminderLate(userContext) ==
    LET needsReminderOfRole == userContext.messageCount % REMINDER_INTERVAL = 1
    IN <<SystemPrompt>>
       \o (IF needsReminderOfRole THEN <<ReminderEntry>> ELSE <<>>)
       \o (IF Truthy(userContext.postTopic)
           THEN <<TopicEntry(userContext.postTopic)>> ELSE <<>>)
       \o getRelevantMessages(userContext.messages)

\* prepareMessagesForApi(userContext)
prepareMessagesForApi(userContext) ==
    LET needsReminderOfRole == userContext.messageCount % REMINDER_INTERVAL = 0
    IN <<SystemPrompt>>
       \o (IF needsReminderOfRole THEN <<ReminderEntry>> ELSE <<>>)
       \o (IF Truthy(userContext.postTopic)
           THEN <<TopicEntry(userContext.postTopic)>> ELSE <<>>)
       \o getRelevantMessages(userContext.messages)

\* The arrays of a prepareMessagesForApi call: stored is userContext.messages,
\* messages is the local array the function returns, slice is the array that
\* Array.prototype.slice makes.  getRelevantMessages returns a reference: to
\* the stored array itself when it is short enough, to a new slice otherwise.
getRelevantMessagesRef(arrays) ==
    IF Len(arrays.stored) <= RELEVANT_LENGTH
    THEN [arrays |-> arrays, ref |-> "stored"]
    ELSE [arrays |-> [arrays EXCEPT !.slice = SliceLast(arrays.stored, RELEVANT_LENGTH)],
          ref |-> "slice"]

\* prepareMessagesForApi putting its entries in front of the array that
\* getRelevantMessages returned (relevantMessages.unshift(...messages)) and
\* returning that array.
PromptArrays_InPlace(userContext) ==
    LET start == [stored |-> userContext.messages,
                  messages |-> prepareMessagesForApi([userContext EXCEPT !.messages = <<>>]),
                  slice |-> <<>>]
        relevantMessages == getRelevantMessagesRef(start)
        unshifted == [relevantMessages.arrays EXCEPT
                         ![relevantMessages.ref] = start.messages \o @]
    IN [unshifted EXCEPT !.messages = unshifted[relevantMessages.ref]]

\* The arrays after prepareMessagesForApi(userContext): the entries of the
\* array that getRelevantMessages returned are pushed, one by one, onto the
\* local array (messages.push(...relevantMessages)).
PromptArrays(userContext) ==
    LET start == [stored |-> userContext.messages,
                  messages |-> prepareMessagesForApi([userContext EXCEPT !.messages = <<>>]),
                  slice |-> <<>>]
        relevantMessages == getRelevantMessagesRef(start)
    IN [relevantMessages.arrays EXCEPT
           !.messages = @ \o relevantMessages.arrays[relevantMessages.ref]]


\* A text is the sequence of its words; Handle is "@" + botInfo.username.
Handle == "@bot"
Word == "hi"
DefaultText == <<Handle, Word>>

\* isBotMentioned(messageText, botUsername)
isBotMentioned(messageText) ==
    \E i \in 1..Len(messageText) : messageText[i] = Handle

\* cleanMentionFromText removing every occurrence of the handle.
cleanMentionFromText_All(text) ==
    LET F[i \in 0..Len(text)] ==
            IF i = 0 THEN <<>>
            ELSE IF text[i] = Handle THEN F[i - 1] ELSE Append(F[i - 1], text[i])
    IN F[Len(text)]

\* cleanMentionFromText(text, botUsername): text.replace("@" + botUsername, "")
\* replaces the first occurrence; trim() leaves the words.
cleanMentionFromText(text) ==
    IF ~isBotMentioned(text) THEN text
    ELSE LET i == CHOOSE k \in 1..Len(text) :
                      text[k] = Handle /\ \A j \in 1..(k - 1) : text[j] # Handle
         IN SubSeq(text, 1, i - 1) \o SubSeq(text, i + 1, Len(text))

\* sanitizeResponse(response): the reply kept when its length is in range.
sanitizeResponse(replyTag) ==
    CASE replyTag = "short" -> "cannot answer"
      [] replyTag = "long" -> "cut reply"
      [] OTHER -> replyTag

\* processUserMessage up to its first await: the user turn is appended, the
\* time and the counter are updated and the history is limited.
AppendUserTurn(context, text, msgId, t) ==
    limitMessageHistory(
        [context EXCEPT !.messages = Append(@, UserTurn(text, msgId)),
                        !.lastInteraction = t,
                        !.messageCount = @ + 1])

\* The assistant append also clearing the active flag.
AppendAssistantTurn_Deactivates(context, msgId, replyTag) ==
    [context EXCEPT !.messages =
                        Append(@, ChatMessage("assistant", sanitizeResponse(replyTag), msgId, "")),
                    !.messageCount = @ + 1,
                    !.activeConversation = FALSE]

\* The assistant append without the increment of messageCount.
AppendAssistantTurn_Uncounted(context, msgId, replyTag) ==
    [context EXCEPT !.messages =
                        Append(@, ChatMessage("assistant", sanitizeResponse(replyTag), msgId, ""))]

\* processUserMessage after the completion call: the assistant turn is appended.
AppendAssistantTurn(context, msgId, replyTag) ==
    [context EXCEPT !.messages =
                        Append(@, ChatMessage("assistant", sanitizeResponse(replyTag), msgId, "")),
                    !.messageCount = @ + 1]

\* updatePostContext pushing the reply before the post text.
updatePostContext_ReplyFirst(postContext, postId, replyTag, t) ==
    limitMessageHistory(
        [postContext EXCEPT !.messages =
                                Append(Append(@, ChatMessage("assistant", replyTag, postId, "")),
                                       ChatMessage("user", "post", postId, "")),
                            !.messageCount = @ + 2,
                            !.lastInteraction = t])

\* updatePostContext(postContext, postText, botComment)
updatePostContext(postContext, postId, replyTag, t) ==
    limitMessageHistory(
        [postContext EXCEPT !.messages =
                                Append(Append(@, ChatMessage("user", "post", postId, "")),
                                       ChatMessage("assistant", replyTag, postId, "")),
                            !.messageCount = @ + 2,
                            !.lastInteraction = t])

\* The messages commentPost sends: the system prompt and the post-comment prompt.
PostCommentMessages(postId) ==
    <<SystemPrompt, ChatMessage("user", "POST_COMMENT_PROMPT", postId, "")>>

(***************************************************************************)
(* ApiService: errors of callDeepseekApi and their classification          *)
(***************************************************************************)
NetworkCodes == {"ECONNRESET", "ETIMEDOUT", "ECONNABORTED"}
ErrorCodes == NetworkCodes \cup {"ERR_BAD_REQUEST"}
NoResponse == 0
HttpStatuses == {400, 429, 500}

\* An error: whether axios made it, its code, whether its message includes
\* "timeout" / "network", and the status of its response (NoResponse: none).
ApiErrors ==
    [isAxios : BOOLEAN, code : ErrorCodes, msgTimeout : BOOLEAN,
     msgNetwork : BOOLEAN, status : {NoResponse} \cup HttpStatuses]

\* The errors axios and the response parsing produce in the instance runs.
SomeErrors ==
    { [isAxios |-> TRUE, code |-> "ECONNRESET", msgTimeout |-> FALSE,
       msgNetwork |-> FALSE, status |-> NoResponse],
      [isAxios |-> TRUE, code |-> "ECONNABORTED", msgTimeout |-> TRUE,
       msgNetwork |-> FALSE, status |-> NoResponse],
      [isAxios |-> TRUE, code |-> "ERR_BAD_REQUEST", msgTimeout |-> FALSE,
       msgNetwork |-> FALSE, status |-> 429],
      [isAxios |-> FALSE, code |-> "ERR_BAD_REQUEST", msgTimeout |-> FALSE,
       msgNetwork |-> FALSE, status |-> NoResponse] }

\* isNetworkError taking every axios error for a network error.
isNetworkError_AnyAxios(error) == error.isAxios

\* isNetworkError(error)
isNetworkError(error) ==
    /\ error.isAxios
    /\ \/ error.code = "ECONNRESET"
       \/ error.code = "ETIMEDOUT"
       \/ error.code = "ECONNABORTED"
       \/ error.msgTimeout
       \/ error.msgNetwork
       \/ error.status = NoResponse

\* The wait callApiWithRetry passes to delay() after the failure with this retryCount.
waitTime(retryCount) == BACKOFF_BASE_MS * Pow2(retryCount)

NoError == [attempt |-> 0, err |-> [isAxios |-> FALSE, code |-> "Unknown error",
                                    msgTimeout |-> FALSE, msgNetwork |-> FALSE,
                                    status |-> NoResponse]]

\* What a send that failed throws: an error that axios did not make.
SendError == [attempt |-> 0, err |-> NoError.err]

\* A message passed to ctx.reply: its text and the id of the message it
\* replies to (NoReplyTo: sent without reply_to_message_id).
NoReplyTo == 0
OutMessage(text, replyTo) == [text |-> text, replyTo |-> replyTo]

\* handleMessageError answering every error with the general apology.
handleMessageError_AlwaysApology(error, msgId) == OutMessage("apology", msgId)

\* handleMessageError(ctx, message, error): the first message it sends.
handleMessageError(error, msgId) ==
    IF error.isAxios /\ error.status = 429
    THEN OutMessage("overloaded", msgId)
    ELSE IF error.isAxios /\ error.code \in {"ECONNABORTED", "ETIMEDOUT"}
         THEN OutMessage("shorter request", msgId)
         ELSE OutMessage("apology", msgId)

\* The catch block of commentPost: ctx.reply with its fixed text.
CommentPostError == OutMessage("cannot comment", NoReplyTo)

(***************************************************************************)
(* State                                                                   *)
(***************************************************************************)
VARIABLES
    now,           \* Date.now()
    heap,          \* context objects: object id -> UserContext
    appended,      \* per context object, every turn ever pushed to its history
    userContexts,  \* ContextManager.userContexts: user key -> object id
    postContexts,  \* ContextManager.postContexts: post key -> object id
    handlers,      \* the handleIncomingMessage calls in flight, and their locals
    received,      \* direct messages received so far; the next one has id received + 1
    posted,        \* channel-post events received so far
    pctx,          \* argument of a prepareMessagesForApi call
    prompt,        \* what that call returned
    config,        \* TelegramBot.config and startupTime
    update,        \* the update last passed to handleIncomingMessage, and its route
    supervisor,    \* the process of index.ts: isShuttingDown, listeners, timers
    workers        \* the processes of botWorker.ts, one per configuration

vars == <<now, heap, appended, userContexts, postContexts, handlers, received,
          posted, pctx, prompt, config, update, supervisor, workers>>

\* The state of the context store and of the handlers.
mvars == <<now, heap, appended, userContexts, postContexts, handlers, received,
           posted, pctx, prompt>>

\* The state of the processes.
pvars == <<supervisor, workers>>

\* The state of the dispatch and of the processes.
dvars == <<config, update, supervisor, workers>>

\* process.exitCode and ChildProcess.exitCode of a process that has not exited.
NoCode == -1

\* No supervisor and no workers: one bot on its own.
NoSupervisor ==
    [pc |-> "off", isShuttingDown |-> FALSE, once |-> {}, signal |-> "none",
     code |-> NoCode, elapsed |-> 0, exitCode |-> NoCode, exitSignal |-> "none",
     triggers |-> 0, ready |-> {}]
NoWorkers == [w \in {} |-> 0]

\* IGNORE_MESSAGES_OLDER_THAN_MINS is optional: absent from the configuration.
NoOverride == -1

\* The configuration without the override; the bot constructed at time 0.
DefaultConfig ==
    [ignoreMins |-> NoOverride, startupTime |-> 0, launched |-> FALSE,
     commentProbability |-> COMMENT_PROBABILITY]

\* No update yet.
NoUpdate ==
    [hasText |-> FALSE, date |-> 0, forwardFromChannel |-> FALSE,
     hasFrom |-> FALSE, senderChatChannel |-> FALSE, replyToBot |-> FALSE,
     replyToPost |-> FALSE,
     mentioned |-> FALSE, tooShort |-> FALSE, random |-> 0, route |-> "no update"]

Idle ==
    [pc |-> "idle", kind |-> "none", key |-> 0, ctx |-> 0, msgId |-> 0,
     messages |-> <<>>, maxRetries |-> 0, retryCount |-> 0, attempts |-> 0,
     waits |-> <<>>, lastError |-> NoError, thrown |-> NoError, reply |-> "",
     topic |-> Undefined, result |-> [users |-> 0, posts |-> 0],
     calls |-> 0, sent |-> <<>>, text |-> <<>>, cleanText |-> <<>>,
     parts |-> <<>>, part |-> 0]

EmptyMap == [k \in {} |-> 0]
NoContext == createNewUserContext(Undefined, 0)

Init ==
    /\ config = DefaultConfig
    /\ update = NoUpdate
    /\ supervisor = NoSupervisor
    /\ workers = NoWorkers
    /\ now = 0
    /\ heap = EmptyMap
    /\ appended = EmptyMap
    /\ userContexts = EmptyMap
    /\ postContexts = EmptyMap
    /\ handlers = [h \in Hids |-> Idle]
    /\ received = 0
    /\ posted = 0
    /\ pctx = NoContext
    /\ prompt = <<>>

\* The objects something still refers to; the rest is garbage.
Referenced(users, posts, hs) ==
    {users[k] : k \in DOMAIN users} \cup {posts[k] : k \in DOMAIN posts}
        \cup {hs[h].ctx : h \in {x \in DOMAIN hs : hs[x].ctx # 0}}

Restrict(f, S) == [x \in DOMAIN f \cap S |-> f[x]]

ReplyTags == {"reply", "short"}

\* A handler returns: its locals go away, and so does a context object that
\* neither a map nor another handler refers to.
Finish(h) ==
    LET hs == [handlers EXCEPT ![h] = Idle]
        live == Referenced(userContexts, postContexts, hs)
    IN /\ handlers' = hs
       /\ heap' = Restrict(heap, live)
       /\ appended' = Restrict(appended, live)

(***************************************************************************)
(* Time and the sweep                                                      *)
(***************************************************************************)
\* Time passes, BASE_TTL_MS at a time.
Tick ==
    /\ now \div BASE_TTL_MS < MaxEpochs
    /\ now' = now + BASE_TTL_MS
    /\ UNCHANGED <<heap, appended, userContexts, postContexts, handlers, received, posted,
                   pctx, prompt>>

\* cleanupOldContexts(), run by the interval timer of setupCleanupInterval.
cleanupOldContexts ==
    LET users == cleanMapWithTtl(heap, userContexts, now)
        posts == cleanMapWithTtl(heap, postContexts, now)
        live == Referenced(users, posts, handlers)
    IN /\ userContexts' = users
       /\ postContexts' = posts
       /\ heap' = Restrict(heap, live)
       /\ appended' = Restrict(appended, live)
       /\ UNCHANGED <<now, handlers, received, posted, pctx, prompt>>

(***************************************************************************)
(* handleDirectMessage / processUserMessage                                *)
(***************************************************************************)
\* processUserMessage building the prompt before it appends the user turn.
ProcessUserMessage_PromptFirst(h, hrec, hp, log) ==
    LET o == hrec.ctx
        c == AppendUserTurn(hp[o], hrec.cleanText, hrec.msgId, now)
    IN /\ heap' = [hp EXCEPT ![o] = c]
       /\ appended' = [log EXCEPT ![o] = Append(@, UserTurn(hrec.cleanText, hrec.msgId))]
       /\ handlers' = [handlers EXCEPT ![h] =
                          [hrec EXCEPT !.pc = "typing",
                                       !.messages = prepareMessagesForApi(hp[o]),
                                       !.maxRetries = DEFAULT_RETRIES]]

\* processUserMessage from its start to the await of sendTypingIndicator.
ProcessUserMessage(h, hrec, hp, log) ==
    LET o == hrec.ctx
        c == AppendUserTurn(hp[o], hrec.cleanText, hrec.msgId, now)
    IN /\ heap' = [hp EXCEPT ![o] = c]
       /\ appended' = [log EXCEPT ![o] = Append(@, UserTurn(hrec.cleanText, hrec.msgId))]
       /\ handlers' = [handlers EXCEPT ![h] =
                          [hrec EXCEPT !.pc = "typing",
                                       !.messages = prepareMessagesForApi(c),
                                       !.maxRetries = DEFAULT_RETRIES]]

\* handleDirectMessage: the context is fetched and marked active; a reply to a
\* channel post awaits inferPostTopic, any other message goes on to
\* processUserMessage.
ReceiveDirect(h, userKey, replyToPost, text) ==
    /\ handlers[h].pc = "idle"
    /\ LET r == getUserContext(heap, userContexts, userKey, now)
           o == r.ref
           hp == [r.heap EXCEPT ![o].activeConversation = TRUE]
           log == IF o \in DOMAIN appended THEN appended ELSE appended @@ (o :> <<>>)
           hrec == [Idle EXCEPT !.kind = "direct", !.key = userKey, !.ctx = o,
                                !.msgId = received + 1, !.text = text,
                                !.cleanText = cleanMentionFromText(text)]
       IN /\ userContexts' = r.map
          /\ received' = received + 1
          /\ IF replyToPost
             THEN /\ heap' = hp
                  /\ appended' = log
                  /\ handlers' = [handlers EXCEPT ![h] = [hrec EXCEPT !.pc = "topic"]]
             ELSE ProcessUserMessage(h, hrec, hp, log)
    /\ UNCHANGED <<now, postContexts, posted, pctx, prompt>>

\* checkAndUpdateContextWithReplyInfo resumes with the inferred topic.
DirectTopicDone(h, topic) ==
    /\ handlers[h].pc = "topic"
    /\ ProcessUserMessage(h, handlers[h],
                          [heap EXCEPT ![handlers[h].ctx].postTopic = topic], appended)
    /\ UNCHANGED <<now, userContexts, postContexts, received, posted, pctx, prompt>>

\* sendTypingIndicator resolves (it swallows its own errors) and
\* callApiWithRetry is called.
TypingDone(h) ==
    /\ handlers[h].pc = "typing"
    /\ handlers' = [handlers EXCEPT ![h].pc = "api", ![h].calls = @ + 1]
    /\ UNCHANGED <<now, heap, appended, userContexts, postContexts, received, posted,
                   pctx, prompt>>

(***************************************************************************)
(* commentPost                                                             *)
(***************************************************************************)
\* commentPost up to the await of inferPostTopic.
ReceivePost(h, postKey) ==
    /\ handlers[h].pc = "idle"
    /\ handlers' = [handlers EXCEPT ![h] =
                       [Idle EXCEPT !.pc = "postTopic", !.kind = "post",
                                    !.key = postKey, !.msgId = postKey]]
    /\ posted' = posted + 1
    /\ UNCHANGED <<received, now, heap, appended, userContexts, postContexts, pctx, prompt>>

\* inferPostTopic resolves: the post context is fetched or created with the
\* topic and the completion call starts.
PostTopicDone(h, topic) ==
    /\ handlers[h].pc = "postTopic"
    /\ LET r == getPostContext(heap, postContexts, handlers[h].key, topic, now)
           o == r.ref
       IN /\ heap' = r.heap
          /\ postContexts' = r.map
          /\ appended' = IF o \in DOMAIN appended THEN appended
                         ELSE appended @@ (o :> <<>>)
          /\ handlers' = [handlers EXCEPT ![h] =
                             [handlers[h] EXCEPT
                                 !.pc = "api", !.ctx = o, !.topic = topic,
                                 !.calls = @ + 1,
                                 !.messages = PostCommentMessages(handlers[h].msgId),
                                 !.maxRetries = DEFAULT_RETRIES]]
    /\ UNCHANGED <<now, userContexts, received, posted, pctx, prompt>>

(***************************************************************************)
(* callApiWithRetry and what its callers do with its outcome               *)
(***************************************************************************)
\* The catch block also taking back the user turn that was appended before
\* the call.
Throw_RollsBack(h, hrec, error) ==
    /\ handlers' = [handlers EXCEPT ![h] =
                       [hrec EXCEPT !.pc = IF hrec.kind = "call" THEN "thrown"
                                           ELSE "errReply",
                                    !.thrown = error,
                                    !.sent =
                                        CASE hrec.kind = "direct" ->
                                                 Append(@, handleMessageError(error.err,
                                                                              hrec.msgId))
                                          [] hrec.kind = "post" ->
                                                 Append(@, CommentPostError)
                                          [] OTHER -> @]]
    /\ heap' = IF hrec.kind = "direct" /\ heap[hrec.ctx].messages # <<>>
               THEN [heap EXCEPT ![hrec.ctx].messages = SubSeq(@, 1, Len(@) - 1),
                                 ![hrec.ctx].messageCount = @ - 1]
               ELSE heap
    /\ UNCHANGED appended

\* The catch block of commentPost also keeping the post text in the history
\* of the post context.
Throw_KeepsPostText(h, hrec, error) ==
    /\ handlers' = [handlers EXCEPT ![h] =
                       [hrec EXCEPT !.pc = IF hrec.kind = "call" THEN "thrown"
                                           ELSE "errReply",
                                    !.thrown = error,
                                    !.sent =
                                        CASE hrec.kind = "direct" ->
                                                 Append(@, handleMessageError(error.err,
                                                                              hrec.msgId))
                                          [] hrec.kind = "post" ->
                                                 Append(@, CommentPostError)
                                          [] OTHER -> @]]
    /\ heap' = IF hrec.kind = "post" /\ hrec.pc \in {"api", "backoff"}
               THEN [heap EXCEPT ![hrec.ctx].messages =
                                     Append(@, ChatMessage("user", "post", hrec.msgId, "")),
                                 ![hrec.ctx].messageCount = @ + 1]
               ELSE heap
    /\ UNCHANGED appended

\* callApiWithRetry throws: handleDirectMessage and commentPost catch and go
\* on to send their error message; a bare call ends thrown.
Throw(h, hrec, error) ==
    /\ handlers' = [handlers EXCEPT ![h] =
                       [hrec EXCEPT !.pc = IF hrec.kind = "call" THEN "thrown"
                                           ELSE "errReply",
                                    !.thrown = error,
                                    !.sent =
                                        CASE hrec.kind = "direct" ->
                                                 Append(@, handleMessageError(error.err,
                                                                              hrec.msgId))
                                          [] hrec.kind = "post" ->
                                                 Append(@, CommentPostError)
                                          [] OTHER -> @]]
    /\ UNCHANGED <<heap, appended>>

\* callDeepseekApi resolves with a reply: callApiWithRetry returns it.
\* processUserMessage appends the sanitized assistant turn, commentPost
\* updates the post context; both go on to send.
ApiSuccess(h, replyTag) ==
    /\ handlers[h].pc = "api"
    /\ LET hrec == [handlers[h] EXCEPT !.attempts = @ + 1]
           o == hrec.ctx
       IN CASE hrec.kind = "direct" ->
                 /\ heap' = [heap EXCEPT ![o] =
                                AppendAssistantTurn(@, hrec.msgId, replyTag)]
                 /\ appended' = [appended EXCEPT ![o] =
                        Append(@, ChatMessage("assistant", sanitizeResponse(replyTag),
                                              hrec.msgId, ""))]
                 /\ handlers' = [handlers EXCEPT ![h] =
                        [hrec EXCEPT !.pc = "send", !.reply = sanitizeResponse(replyTag),
                                     !.sent = Append(@, OutMessage(sanitizeResponse(replyTag),
                                                                   hrec.msgId))]]
            [] hrec.kind = "post" ->
                 /\ heap' = [heap EXCEPT ![o] =
                                updatePostContext(@, hrec.msgId, replyTag, now)]
                 /\ appended' = [appended EXCEPT ![o] =
                        Append(Append(@, ChatMessage("user", "post", hrec.msgId, "")),
                               ChatMessage("assistant", replyTag, hrec.msgId, ""))]
                 /\ handlers' = [handlers EXCEPT ![h] =
                        [hrec EXCEPT !.pc = "send", !.reply = replyTag,
                                     !.sent = Append(@, OutMessage(replyTag, hrec.msgId))]]
            [] OTHER ->
                 /\ handlers' = [handlers EXCEPT ![h] =
                        [hrec EXCEPT !.pc = "returned", !.reply = replyTag]]
                 /\ UNCHANGED <<heap, appended>>
    /\ UNCHANGED <<now, userContexts, postContexts, received, posted, pctx, prompt>>

\* callDeepseekApi rejects: a network error is followed by the backoff delay,
\* any other error is thrown on.
ApiFailure(h, error) ==
    /\ handlers[h].pc = "api"
    /\ LET hrec == [handlers[h] EXCEPT
                       !.attempts = @ + 1,
                       !.lastError = [attempt |-> handlers[h].attempts + 1,
                                      err |-> error]]
       IN IF isNetworkError(error)
          THEN /\ handlers' = [handlers EXCEPT ![h] =
                      [hrec EXCEPT !.pc = "backoff",
                                   !.waits = Append(@, waitTime(hrec.retryCount))]]
               /\ UNCHANGED <<heap, appended>>
          ELSE Throw(h, hrec, [attempt |-> hrec.attempts, err |-> error])
    /\ UNCHANGED <<now, userContexts, postContexts, received, posted, pctx, prompt>>

\* BackoffDone with the loop condition retryCount <= maxRetries.
BackoffDone_OneMore(h) ==
    /\ handlers[h].pc = "backoff"
    /\ LET hrec == [handlers[h] EXCEPT !.retryCount = @ + 1]
       IN IF hrec.retryCount <= hrec.maxRetries
          THEN /\ handlers' = [handlers EXCEPT ![h] = [hrec EXCEPT !.pc = "api"]]
               /\ UNCHANGED <<heap, appended>>
          ELSE Throw(h, hrec, hrec.lastError)
    /\ UNCHANGED <<now, userContexts, postContexts, received, posted, pctx, prompt>>

\* delay(waitTime) resolves: retryCount++, and the loop goes on while
\* retryCount < maxRetries; after it, lastError is thrown.
BackoffDone(h) ==
    /\ handlers[h].pc = "backoff"
    /\ LET hrec == [handlers[h] EXCEPT !.retryCount = @ + 1]
       IN IF hrec.retryCount < hrec.maxRetries
          THEN /\ handlers' = [handlers EXCEPT ![h] = [hrec EXCEPT !.pc = "api"]]
               /\ UNCHANGED <<heap, appended>>
          ELSE Throw(h, hrec, hrec.lastError)
    /\ UNCHANGED <<now, userContexts, postContexts, received, posted, pctx, prompt>>

\* A ctx.reply of the reply settles. Resolved: the handler returns. Rejected:
\* sendSingleMessage sends the text again without the reply id and throws
\* when that is rejected too. processUserMessage lets the error through to
\* the catch block of handleDirectMessage; sendPostComment catches it and
\* calls sendSplitMessage once more without the reply id, which sends the text
\* and, when rejected, sends it again; then commentPost catches.
SendDone(h, ok) ==
    /\ handlers[h].pc \in {"send", "sendRetry", "sendPlain", "sendPlainRetry"}
    /\ IF ok THEN Finish(h)
       ELSE LET again == [handlers[h] EXCEPT
                            !.sent = Append(@, OutMessage(handlers[h].reply, NoReplyTo))]
            IN CASE handlers[h].pc = "send" ->
                      /\ handlers' = [handlers EXCEPT ![h] = [again EXCEPT !.pc = "sendRetry"]]
                      /\ UNCHANGED <<heap, appended>>
                 [] handlers[h].pc = "sendRetry" /\ handlers[h].kind = "post" ->
                      /\ handlers' = [handlers EXCEPT ![h] = [again EXCEPT !.pc = "sendPlain"]]
                      /\ UNCHANGED <<heap, appended>>
                 [] handlers[h].pc = "sendPlain" ->
                      /\ handlers' = [handlers EXCEPT
                                         ![h] = [again EXCEPT !.pc = "sendPlainRetry"]]
                      /\ UNCHANGED <<heap, appended>>
                 [] OTHER -> Throw(h, handlers[h], SendError)
    /\ UNCHANGED <<now, userContexts, postContexts, received, posted, pctx, prompt>>

\* The error path also deleting the context of the failed handling.
ErrReplyDone_Forgets(h, ok) ==
    /\ handlers[h].pc = "errReply"
    /\ LET hs == [handlers EXCEPT ![h] = Idle]
           users == Restrict(userContexts,
                             {k \in DOMAIN userContexts :
                                 userContexts[k] # handlers[h].ctx})
           posts == Restrict(postContexts,
                             {k \in DOMAIN postContexts :
                                 postContexts[k] # handlers[h].ctx})
           live == Referenced(users, posts, hs)
       IN /\ handlers' = hs
          /\ userContexts' = users
          /\ postContexts' = posts
          /\ heap' = Restrict(heap, live)
          /\ appended' = Restrict(appended, live)
    /\ UNCHANGED <<now, received, posted, pctx, prompt>>

\* The rejection of an error message that no catch block of the handlers
\* takes, with no catch block in handleIncomingMessage either.
ErrReplyDone_Rethrows(h, ok) ==
    /\ handlers[h].pc = "errReply"
    /\ IF ok THEN Finish(h)
       ELSE /\ handlers' = [handlers EXCEPT ![h].pc = "thrown"]
            /\ UNCHANGED <<heap, appended>>
    /\ UNCHANGED <<now, userContexts, postContexts, received, posted, pctx, prompt>>

\* The ctx.reply of the error message settles. Resolved: the handler returns.
\* Rejected: the general branch of handleMessageError sends its apology once
\* more without the reply id and logs a second rejection; the rejection of the
\* other two branches is caught and logged by handleIncomingMessage, that of
\* commentPost by its own catch block. The handler returns in each case.
ErrReplyDone(h, ok) ==
    /\ handlers[h].pc = "errReply"
    /\ LET last == handlers[h].sent[Len(handlers[h].sent)]
       IN IF /\ ~ok
             /\ handlers[h].kind = "direct"
             /\ last = OutMessage("apology", handlers[h].msgId)
          THEN /\ handlers' = [handlers EXCEPT
                                  ![h].sent = Append(@, OutMessage("apology", NoReplyTo))]
               /\ UNCHANGED <<heap, appended>>
          ELSE Finish(h)
    /\ UNCHANGED <<now, userContexts, postContexts, received, posted, pctx, prompt>>

(***************************************************************************)
(* The bot instance                                                        *)
(***************************************************************************)
\* The instance with one handleIncomingMessage call in flight at a time; time
\* passes and the sweep timer fires at every suspension point of the call.
Next ==
    \/ Tick /\ UNCHANGED dvars
    \/ cleanupOldContexts /\ UNCHANGED dvars
    \/ \E u \in UserKeys, r \in BOOLEAN : received + posted < MaxMsgs /\ ReceiveDirect(1, u, r, DefaultText) /\ UNCHANGED dvars
    \/ \E t \in Topics : DirectTopicDone(1, t) /\ UNCHANGED dvars
    \/ TypingDone(1) /\ UNCHANGED dvars
    \/ \E p \in PostKeys : received + posted < MaxMsgs /\ ReceivePost(1, p) /\ UNCHANGED dvars
    \/ \E t \in Topics : PostTopicDone(1, t) /\ UNCHANGED dvars
    \/ \E t \in ReplyTags : ApiSuccess(1, t) /\ UNCHANGED dvars
    \/ \E e \in SomeErrors : ApiFailure(1, e) /\ UNCHANGED dvars
    \/ BackoffDone(1) /\ UNCHANGED dvars
    \/ \E ok \in BOOLEAN : SendDone(1, ok) /\ UNCHANGED dvars
    \/ \E ok \in BOOLEAN : ErrReplyDone(1, ok) /\ UNCHANGED dvars

Spec == Init /\ [][Next]_vars

(***************************************************************************)
(* A long conversation: one user and one post, every call succeeding, no   *)
(* time passing.                                                           *)
(***************************************************************************)
NextLong ==
    \/ received + posted < MaxLongMsgs /\ ReceiveDirect(1, 1, FALSE, DefaultText) /\ UNCHANGED dvars
    \/ TypingDone(1) /\ UNCHANGED dvars
    \/ received + posted < MaxLongMsgs /\ ReceivePost(1, 101) /\ UNCHANGED dvars
    \/ PostTopicDone(1, "topic A") /\ UNCHANGED dvars
    \/ ApiSuccess(1, "reply") /\ UNCHANGED dvars
    \/ SendDone(1, TRUE) /\ UNCHANGED dvars

SpecLong == Init /\ [][NextLong]_vars

(***************************************************************************)
(* callApiWithRetry on its own: one call with maxRetries from               *)
(* 1..MaxRetriesArg, every outcome of every attempt.                       *)
(***************************************************************************)
InitRetry ==
    /\ config = DefaultConfig
    /\ update = NoUpdate
    /\ supervisor = NoSupervisor
    /\ workers = NoWorkers
    /\ now = 0
    /\ heap = EmptyMap
    /\ appended = EmptyMap
    /\ userContexts = EmptyMap
    /\ postContexts = EmptyMap
    /\ \E m \in 1..MaxRetriesArg :
          handlers = [h \in Hids |->
                         IF h = 1
                         THEN [Idle EXCEPT !.pc = "api", !.kind = "call",
                                           !.messages = <<SystemPrompt>>,
                                           !.maxRetries = m]
                         ELSE Idle]
    /\ received = 0
    /\ posted = 0
    /\ pctx = NoContext
    /\ prompt = <<>>

NextRetry ==
    \/ \E t \in ReplyTags : ApiSuccess(1, t) /\ UNCHANGED dvars
    \/ \E e \in ApiErrors : ApiFailure(1, e) /\ UNCHANGED dvars
    \/ BackoffDone(1) /\ UNCHANGED dvars

SpecRetry == InitRetry /\ [][NextRetry]_vars

\* Every request settles (it has a timeout) and every delay timer fires.
SpecRetryFair == SpecRetry /\ WF_vars(NextRetry)

(***************************************************************************)
(* prepareMessagesForApi on its own: one call on a context with any        *)
(* messageCount from 1..MaxCount, any topic and any history the store can  *)
(* hold.                                                                   *)
(***************************************************************************)
\* The last n turns of a conversation of count turns, alternating user and
\* assistant.
HistoryOf(count, n) ==
    [i \in 1..n |->
        LET turn == count - n + i
        IN ChatMessage(IF turn % 2 = 1 THEN "user" ELSE "assistant",
                       IF turn % 2 = 1 THEN "text" ELSE "reply",
                       (turn + 1) \div 2, "")]

InitPrompt ==
    /\ config = DefaultConfig
    /\ update = NoUpdate
    /\ supervisor = NoSupervisor
    /\ workers = NoWorkers
    /\ now = 0
    /\ heap = EmptyMap
    /\ appended = EmptyMap
    /\ userContexts = EmptyMap
    /\ postContexts = EmptyMap
    /\ handlers = [h \in Hids |-> Idle]
    /\ received = 0
    /\ posted = 0
    /\ \E count \in 1..MaxCount, topic \in {Undefined} \cup Topics :
          \E n \in 0..Min(count, MAX_LENGTH) :
             pctx = [messages |-> HistoryOf(count, n),
                     lastInteraction |-> 0,
                     postTopic |-> topic,
                     messageCount |-> count,
                     activeConversation |-> TRUE]
    /\ prompt = <<>>

BuildPrompt ==
    /\ prompt = <<>>
    /\ prompt' = prepareMessagesForApi(pctx)
    /\ pctx' = [pctx EXCEPT !.messages = PromptArrays(pctx).stored]
    /\ UNCHANGED <<now, heap, appended, userContexts, postContexts, handlers,
                   received, posted>>

NextPrompt == BuildPrompt /\ UNCHANGED dvars

SpecPrompt == InitPrompt /\ [][NextPrompt]_vars

(***************************************************************************)
(* Properties                                                              *)
(***************************************************************************)
StoredContexts ==
    {userContexts[k] : k \in DOMAIN userContexts}
        \cup {postContexts[k] : k \in DOMAIN postContexts}

\* C1: in every reachable state, every context of the user and of the post
\* namespace has a history of at most MAX_LENGTH (30) entries, also right
\* after a direct-message handling has appended the assistant reply.
C1_HistoryBound ==
    \A o \in StoredContexts : Len(heap[o].messages) <= MAX_LENGTH

\* C7: when more than MAX_LENGTH turns have been appended to a context, the
\* history left by a truncation (the one after the user turn in
\* processUserMessage, the one in updatePostContext) has exactly MAX_LENGTH
\* entries: the MAX_LENGTH most recently appended turns, in append order.
JustTruncated(h) ==
    \/ handlers[h].kind = "direct" /\ handlers[h].pc = "typing"
    \/ handlers[h].kind = "post" /\ handlers[h].pc = "send"

C7_TruncationKeepsNewest ==
    \A h \in Hids :
        JustTruncated(h) /\ Len(appended[handlers[h].ctx]) > MAX_LENGTH =>
            LET log == appended[handlers[h].ctx]
                history == heap[handlers[h].ctx].messages
            IN /\ Len(history) = MAX_LENGTH
               /\ \A i \in 1..MAX_LENGTH :
                     history[i] = log[Len(log) - MAX_LENGTH + i]

\* C7 witness: the truncation after the 17th user turn of a conversation, 33
\* turns appended, cuts a history of 32 entries down to the newest 30.
C7_Witness ==
    \E h \in Hids :
        /\ JustTruncated(h)
        /\ handlers[h].kind = "direct"
        /\ Len(appended[handlers[h].ctx]) = MAX_LENGTH + 3
        /\ Len(heap[handlers[h].ctx].messages) = MAX_LENGTH

\* C2: a sweep executed at time now removes a context, in either namespace,
\* exactly when now - lastInteraction exceeds its TTL (ACTIVE_TTL_MS for an
\* active conversation, BASE_TTL_MS otherwise); it adds no key, and a context
\* that survives keeps its object and every field.
SweptAsSpecified(map, mapAfter) ==
    /\ DOMAIN mapAfter \subseteq DOMAIN map
    /\ \A key \in DOMAIN map :
          LET context == heap[map[key]]
              ttl == IF context.activeConversation THEN ACTIVE_TTL_MS
                     ELSE BASE_TTL_MS
          IN /\ (key \notin DOMAIN mapAfter) <=>
                    (now - context.lastInteraction > ttl)
             /\ key \in DOMAIN mapAfter =>
                    /\ mapAfter[key] = map[key]
                    /\ heap'[map[key]] = context

C2_SweepEvictsByTtl ==
    [][cleanupOldContexts =>
          /\ SweptAsSpecified(userContexts, userContexts')
          /\ SweptAsSpecified(postContexts, postContexts')]_vars

\* C2 witness: two periods of BASE_TTL_MS after a direct message and a channel
\* post were handled, a sweep has dropped the post context (not active, over
\* BASE_TTL_MS) and has kept the active user context, untouched since time 0.
C2_Witness ==
    /\ now = 2 * BASE_TTL_MS
    /\ posted = 1 /\ received = 1
    /\ handlers[1].pc = "idle"
    /\ postContexts = EmptyMap
    /\ \E u \in DOMAIN userContexts :
          /\ heap[userContexts[u]].activeConversation
          /\ heap[userContexts[u]].lastInteraction = 0

\* C2 witness of the upper tier: the active user context is gone as well.
C2_ActiveEvicted ==
    /\ received = 1 /\ posted = 0
    /\ handlers[1].pc = "idle"
    /\ userContexts = EmptyMap

\* C6: lastInteraction of a context is set to the current time by every fetch
\* of an existing context (getUserContext, getPostContext) and by every append
\* of a turn to its history, the append of the assistant reply included.
FetchesExisting(h) ==
    \/ /\ handlers[h].pc = "idle"
       /\ handlers'[h].kind = "direct"
       /\ handlers'[h].key \in DOMAIN userContexts
    \/ /\ handlers[h].pc = "postTopic"
       /\ handlers'[h].pc = "api"
       /\ handlers[h].key \in DOMAIN postContexts

C6_TouchedOnFetchAndAppend ==
    [][/\ \A h \in Hids :
             FetchesExisting(h) =>
                 heap'[handlers'[h].ctx].lastInteraction = now'
       /\ \A o \in DOMAIN heap \cap DOMAIN heap' :
             heap'[o].messages # heap[o].messages =>
                 heap'[o].lastInteraction = now']_vars

\* C6, the append half alone: the step that appends the assistant reply sets
\* lastInteraction to the current time.
C6_TouchedOnAssistantAppend ==
    [][\A h \in Hids :
          handlers[h].kind = "direct" /\ handlers[h].pc = "api"
              /\ handlers'[h].pc = "send" =>
                 heap'[handlers[h].ctx].lastInteraction = now']_vars

\* C6, the fetch half alone: the step in which getUserContext returns an
\* existing context sets lastInteraction to the current time.
C6_TouchedOnUserFetch ==
    [][\A h \in Hids :
          handlers[h].pc = "idle" /\ handlers'[h].kind = "direct"
              /\ handlers'[h].key \in DOMAIN userContexts =>
                 heap'[handlers'[h].ctx].lastInteraction = now']_vars

Calls == {h \in Hids : handlers[h].kind = "call"}
Settled(h) == handlers[h].pc \in {"returned", "thrown"}

\* C3: with maxRetries = 3 and backoff base 1000 ms, three consecutive
\* retryable failures followed by a success yield the waits 1000, 2000 and
\* 4000 ms, and the call then returns the reply: once the third wait is over
\* the call makes its next attempt, it has not thrown.
C3_ThreeFailuresThenReply ==
    \A h \in Calls :
        /\ handlers[h].maxRetries = 3
        /\ handlers[h].attempts = 3
        /\ Len(handlers[h].waits) = 3
        /\ handlers[h].pc # "backoff"
        => /\ handlers[h].waits = <<1000, 2000, 4000>>
           /\ handlers[h].pc \in {"api", "returned"}

\* C4: for every maxRetries >= 1 and every sequence of outcomes,
\* callApiWithRetry makes at most maxRetries attempts and settles; the wait
\* after failed attempt k (from 0) is BACKOFF_BASE_MS * 2^k; and when every
\* attempt fails with a retryable error the call throws the error of the
\* last attempt.
C4_Bounded(h) ==
    /\ handlers[h].attempts <= handlers[h].maxRetries
    /\ \A k \in 0..(Len(handlers[h].waits) - 1) :
          handlers[h].waits[k + 1] = BACKOFF_BASE_MS * Pow2(k)
    /\ handlers[h].pc = "thrown" /\ Len(handlers[h].waits) = handlers[h].maxRetries
          => /\ handlers[h].thrown.attempt = handlers[h].maxRetries
             /\ handlers[h].thrown = handlers[h].lastError

C4_RetryBoundedAndSettles ==
    /\ [](\A h \in Calls : C4_Bounded(h))
    /\ <>(\A h \in Calls : Settled(h))

\* C4 witness: a call with maxRetries = 4 has thrown after four retryable
\* failures and the waits 1000, 2000, 4000, 8000.
C4_Witness ==
    \E h \in Calls :
        /\ handlers[h].pc = "thrown"
        /\ handlers[h].maxRetries = 4
        /\ handlers[h].attempts = 4
        /\ handlers[h].waits = <<1000, 2000, 4000, 8000>>

\* C5 as stated: a failure that carries an HTTP response is terminal whatever
\* its code or message: it is thrown at once, with no wait after it.
LastAttemptFailed(h) ==
    /\ handlers[h].lastError.attempt > 0
    /\ handlers[h].lastError.attempt = handlers[h].attempts
    /\ handlers[h].pc # "returned"

C5_AnyResponseIsTerminal ==
    \A h \in Calls :
        LastAttemptFailed(h) /\ handlers[h].lastError.err.status # NoResponse
        => /\ handlers[h].pc = "thrown"
           /\ handlers[h].thrown = handlers[h].lastError
           /\ Len(handlers[h].waits) = handlers[h].attempts - 1

\* C5 amended: a failure that carries an HTTP response is terminal (thrown at
\* once, no retry and no wait after it) when its code is none of ECONNRESET,
\* ETIMEDOUT, ECONNABORTED and its message includes neither "timeout" nor
\* "network".
C5_PlainResponseIsTerminal ==
    \A h \in Calls :
        /\ LastAttemptFailed(h)
        /\ handlers[h].lastError.err.status # NoResponse
        /\ handlers[h].lastError.err.code
              \notin {"ECONNRESET", "ETIMEDOUT", "ECONNABORTED"}
        /\ ~handlers[h].lastError.err.msgTimeout
        /\ ~handlers[h].lastError.err.msgNetwork
        => /\ handlers[h].pc = "thrown"
           /\ handlers[h].thrown = handlers[h].lastError
           /\ Len(handlers[h].waits) = handlers[h].attempts - 1

\* C5 witness: the first attempt failed with an axios error of status 429 and
\* the call has thrown it, no wait made.
C5_Witness ==
    \E h \in Calls :
        /\ handlers[h].pc = "thrown"
        /\ handlers[h].attempts = 1
        /\ handlers[h].waits = <<>>
        /\ handlers[h].thrown.err.isAxios
        /\ handlers[h].thrown.err.status = 429

Built == prompt # <<>>

\* The positions of the prompt that hold a given entry, and its history part.
PositionsOf(entry) == {i \in 1..Len(prompt) : prompt[i] = entry}
IsSystem(m) == m.role = "system"
HistoryPart == SelectSeq(prompt, LAMBDA m : ~IsSystem(m))

\* C8: for a stored history of any length from 0 to MAX_LENGTH, the prompt
\* holds at most RELEVANT_LENGTH (10) history entries: exactly the last
\* min(10, length) entries of the stored history, oldest first.
C8_PromptWindow ==
    Built =>
        LET stored == pctx.messages
            n == IF Len(stored) < 10 THEN Len(stored) ELSE 10
        IN /\ Len(HistoryPart) <= 10
           /\ Len(HistoryPart) = n
           /\ \A i \in 1..n : HistoryPart[i] = stored[Len(stored) - n + i]

\* C8 witness: a prompt built from a full history of MAX_LENGTH entries.
C8_Witness ==
    /\ Built
    /\ Len(pctx.messages) = MAX_LENGTH
    /\ Len(HistoryPart) = RELEVANT_LENGTH

\* C9: every prompt is ordered: the static system prompt first, then the
\* reinforcement entry if present, then the topic entry, present exactly when
\* the context has a topic, then the history window; no history entry
\* precedes a system entry.
C9_PromptOrder ==
    Built =>
        LET topicAt == {i \in 1..Len(prompt) :
                          IsSystem(prompt[i]) /\ prompt[i].content.tag = "topic"}
            reminderAt == PositionsOf(ReminderEntry)
        IN /\ PositionsOf(SystemPrompt) = {1}
           /\ \A i, j \in 1..Len(prompt) :
                 i < j /\ IsSystem(prompt[j]) => IsSystem(prompt[i])
           /\ reminderAt \subseteq {2}
           /\ IF pctx.postTopic \in Topics
              THEN /\ topicAt = PositionsOf(TopicEntry(pctx.postTopic))
                   /\ topicAt = {2 + Cardinality(reminderAt)}
              ELSE topicAt = {}
           /\ \A i \in 1..Len(prompt) :
                 i > 1 + Cardinality(reminderAt) + Cardinality(topicAt)
                    => ~IsSystem(prompt[i])

\* C9 witness: a prompt with the reinforcement entry, the topic entry and a
\* history window.
C9_Witness ==
    /\ Built
    /\ Len(prompt) > 3
    /\ prompt[2] = ReminderEntry
    /\ prompt[3] = TopicEntry("topic A")
    /\ ~IsSystem(prompt[4])

\* C10: for every messageCount from 1 to 30, with interval 10, the prompt
\* holds the reinforcement entry exactly when messageCount is 10, 20 or 30,
\* and at most once.
C10_ReinforcementCadence ==
    Built /\ pctx.messageCount \in 1..30 =>
        /\ (PositionsOf(ReminderEntry) # {}) <=> (pctx.messageCount \in {10, 20, 30})
        /\ Cardinality(PositionsOf(ReminderEntry)) <= 1

\* C10 witness: the prompt of messageCount 30 holds the reinforcement entry.
C10_Witness ==
    /\ Built
    /\ pctx.messageCount = 30
    /\ Cardinality(PositionsOf(ReminderEntry)) = 1

(***************************************************************************)
(* The ContextManager on its own: its public methods called in any order   *)
(* with any key and any topic argument, the caller writing to the context  *)
(* it was given as the handlers do, while time passes and the sweep runs.  *)
(***************************************************************************)
TopicArgs == {Undefined, ""} \cup Topics

\* The call returned context object o: the caller's earlier reference is gone.
Returned(hp, hrec) ==
    LET hs == [handlers EXCEPT ![1] = hrec]
        live == Referenced(userContexts', postContexts', hs)
    IN /\ handlers' = hs
       /\ heap' = Restrict(hp, live)
       /\ appended' = Restrict([o \in DOMAIN hp |->
                                   IF o \in DOMAIN appended THEN appended[o] ELSE <<>>],
                               live)
       /\ received' = received + 1

CallGetUserContext(userKey) ==
    /\ received < MaxCalls
    /\ LET r == getUserContext(heap, userContexts, userKey, now)
       IN /\ userContexts' = r.map
          /\ postContexts' = postContexts
          /\ Returned(r.heap, [Idle EXCEPT !.pc = "fetched", !.kind = "getUser",
                                           !.key = userKey, !.ctx = r.ref])
    /\ UNCHANGED <<now, posted, pctx, prompt>>

CallGetPostContext(postKey, postTopic) ==
    /\ received < MaxCalls
    /\ LET r == getPostContext(heap, postContexts, postKey, postTopic, now)
       IN /\ postContexts' = r.map
          /\ userContexts' = userContexts
          /\ Returned(r.heap, [Idle EXCEPT !.pc = "fetched", !.kind = "getPost",
                                           !.key = postKey, !.ctx = r.ref,
                                           !.topic = postTopic])
    /\ UNCHANGED <<now, posted, pctx, prompt>>

\* The caller writes to the context it fetched: handleDirectMessage marks it
\* active and processUserMessage appends the user turn; commentPost stores
\* the post and the comment with updatePostContext.
CallerWrites ==
    /\ handlers[1].pc = "fetched"
    /\ LET o == handlers[1].ctx
           id == received
       IN IF handlers[1].kind = "getUser"
          THEN /\ heap' = [heap EXCEPT ![o] =
                              AppendUserTurn([@ EXCEPT !.activeConversation = TRUE],
                                             <<Word>>, id, now)]
               /\ appended' = [appended EXCEPT ![o] = Append(@, UserTurn(<<Word>>, id))]
          ELSE /\ heap' = [heap EXCEPT ![o] = updatePostContext(@, id, "reply", now)]
               /\ appended' = [appended EXCEPT ![o] =
                                  Append(Append(@, ChatMessage("user", "post", id, "")),
                                         ChatMessage("assistant", "reply", id, ""))]
    /\ handlers' = [handlers EXCEPT ![1].pc = "written"]
    /\ UNCHANGED <<now, userContexts, postContexts, received, posted, pctx, prompt>>

CallGetActiveContextsCount ==
    /\ received < MaxCalls
    /\ userContexts' = userContexts
    /\ postContexts' = postContexts
    /\ Returned(heap, [Idle EXCEPT !.pc = "counted", !.kind = "count",
                                   !.result = getActiveContextsCount(userContexts,
                                                                     postContexts)])
    /\ UNCHANGED <<now, posted, pctx, prompt>>

NextManager ==
    \/ now \div BASE_TTL_MS < MaxManagerEpochs /\ Tick /\ UNCHANGED dvars
    \/ cleanupOldContexts /\ UNCHANGED dvars
    \/ CallGetUserContext(1) /\ UNCHANGED dvars
    \/ \E p \in PostKeys, t \in TopicArgs : CallGetPostContext(p, t) /\ UNCHANGED dvars
    \/ CallerWrites /\ UNCHANGED dvars
    \/ CallGetActiveContextsCount /\ UNCHANGED dvars

SpecManager == Init /\ [][NextManager]_vars

\* Every stored context other than the one under key is left as it was.
OthersUnchanged(map, key) ==
    /\ userContexts' = userContexts
    /\ postContexts' = postContexts
    /\ \A o \in StoredContexts : o # map[key] => heap'[o] = heap[o]

\* C11: getPostContext on an existing post key with a non-empty topic
\* overwrites the stored topic and sets lastInteraction to the current time,
\* leaving the history, messageCount and activeConversation of that context
\* and every other context unchanged; with an absent or empty topic the
\* existing context is returned with no field changed.
C11_TopicOverride ==
    [][\A p \in PostKeys, t \in TopicArgs :
          CallGetPostContext(p, t) /\ p \in DOMAIN postContexts =>
             LET o == postContexts[p]
             IN /\ handlers'[1].ctx = o
                /\ OthersUnchanged(postContexts, p)
                /\ IF t \in Topics
                   THEN heap'[o] = [heap[o] EXCEPT !.postTopic = t,
                                                   !.lastInteraction = now]
                   ELSE heap'[o] = heap[o]]_vars

\* C11 witness: a post context that holds a post and its comment was fetched
\* again later with topic B, and carries that topic and the time of the call.
C11_Witness ==
    /\ handlers[1].kind = "getPost" /\ handlers[1].pc = "fetched"
    /\ handlers[1].topic = "topic B"
    /\ now > 0
    /\ LET c == heap[handlers[1].ctx]
       IN /\ Len(c.messages) = 2
          /\ c.messages[1].content.id < received
          /\ c.postTopic = "topic B"
          /\ c.lastInteraction = now

\* C11 witness of the other half: the same context fetched again with an
\* empty topic keeps its topic and its earlier lastInteraction.
C11_EmptyTopicKeeps ==
    /\ handlers[1].kind = "getPost" /\ handlers[1].pc = "fetched"
    /\ handlers[1].topic = ""
    /\ LET c == heap[handlers[1].ctx]
       IN /\ Len(c.messages) = 2
          /\ c.postTopic \in Topics
          /\ c.lastInteraction < now

\* What a fetch-or-create call leaves: for an absent key one more entry, a new
\* object holding an empty context with the given topic; for a present key
\* the same maps and the stored object of the key.
FetchedOrCreated(map, mapAfter, key, topic) ==
    LET o == handlers'[1].ctx
    IN IF key \notin DOMAIN map
       THEN /\ DOMAIN mapAfter = DOMAIN map \cup {key}
            /\ \A k \in DOMAIN map : mapAfter[k] = map[k] /\ heap'[map[k]] = heap[map[k]]
            /\ mapAfter[key] = o
            /\ o \notin StoredContexts
            /\ heap'[o].messages = <<>>
            /\ heap'[o].messageCount = 0
            /\ heap'[o].activeConversation = FALSE
            /\ heap'[o].postTopic = topic
       ELSE /\ mapAfter = map
            /\ o = map[key]
            /\ heap'[o].messages = heap[o].messages

\* C12: fetch-or-create on a key absent from its namespace adds exactly one
\* context with empty history, messageCount 0, activeConversation false and
\* the topic passed (none for a user context); on a present key it returns the
\* stored context and creates none; the other namespace is not touched.
C12_FetchOrCreate ==
    [][/\ \A u \in UserKeys :
             CallGetUserContext(u) =>
                /\ FetchedOrCreated(userContexts, userContexts', u, Undefined)
                /\ postContexts' = postContexts
       /\ \A p \in PostKeys, t \in TopicArgs :
             CallGetPostContext(p, t) =>
                /\ FetchedOrCreated(postContexts, postContexts', p, t)
                /\ userContexts' = userContexts]_vars

\* C12 witness: with a user context and a post context stored, a third call
\* has created the context of another post with topic A.
C12_Witness ==
    /\ handlers[1].kind = "getPost" /\ handlers[1].pc = "fetched"
    /\ received = 3
    /\ Cardinality(DOMAIN userContexts) = 1
    /\ Cardinality(DOMAIN postContexts) = 2
    /\ heap[handlers[1].ctx] = createNewUserContext("topic A", now)
    /\ \E p \in DOMAIN postContexts : Len(heap[postContexts[p]].messages) = 2

\* C12 witness of the present key: getUserContext has returned the stored
\* context of the key, with the turn written to it earlier.
C12_SameContextReturned ==
    /\ handlers[1].kind = "getUser" /\ handlers[1].pc = "fetched"
    /\ userContexts[handlers[1].key] = handlers[1].ctx
    /\ Len(heap[handlers[1].ctx].messages) = 1

\* C13: once activeConversation of a context is true it stays true for as
\* long as the context exists: no step (a further message, a failed
\* completion, a topic update, a sweep that keeps it) sets it back to false,
\* neither on the object nor under the key that holds it.
C13_ActiveStaysActive ==
    [][/\ \A o \in DOMAIN heap \cap DOMAIN heap' :
             heap[o].activeConversation => heap'[o].activeConversation
       /\ \A k \in DOMAIN userContexts \cap DOMAIN userContexts' :
             heap[userContexts[k]].activeConversation
                => heap'[userContexts'[k]].activeConversation
       /\ \A k \in DOMAIN postContexts \cap DOMAIN postContexts' :
             heap[postContexts[k]].activeConversation
                => heap'[postContexts'[k]].activeConversation]_vars

\* C13 witness: the second message of a user, a reply to a channel post, came
\* two periods of BASE_TTL_MS or more after the start; the topic was attached,
\* the completion failed, and the context, which still holds the first turn,
\* is active.
C13_Witness ==
    /\ handlers[1].kind = "direct" /\ handlers[1].pc = "errReply"
    /\ received = 2
    /\ LET c == heap[handlers[1].ctx]
       IN /\ c.activeConversation
          /\ c.postTopic \in Topics
          /\ Len(c.messages) >= 2
          /\ c.messages[1].content.id = 1
          /\ c.lastInteraction >= 2 * BASE_TTL_MS

\* A step keeps every key of the map on its object, unless it is a sweep and
\* the context is past its TTL.
KeysKept(map, mapAfter) ==
    \A key \in DOMAIN map :
        \/ key \in DOMAIN mapAfter /\ mapAfter[key] = map[key]
        \/ /\ cleanupOldContexts
           /\ now - heap[map[key]].lastInteraction >
                 (IF heap[map[key]].activeConversation THEN ACTIVE_TTL_MS
                  ELSE BASE_TTL_MS)

\* C14: a key present in either namespace stays present, mapped to the same
\* context, across every step other than a sweep that finds it expired:
\* message handling, topic updates and failures never remove or replace a
\* context.
C14_OnlySweepRemoves ==
    [][KeysKept(userContexts, userContexts') /\ KeysKept(postContexts, postContexts')]_vars

\* C14 witness: a user context written at time 0 is still stored four periods
\* of BASE_TTL_MS later, while the comment on a channel post has failed.
C14_Witness ==
    /\ handlers[1].kind = "post" /\ handlers[1].pc = "errReply"
    /\ now = 4 * BASE_TTL_MS
    /\ \E u \in DOMAIN userContexts :
          /\ heap[userContexts[u]].lastInteraction = 0
          /\ Len(heap[userContexts[u]].messages) >= 1

\* C14 on the ContextManager alone (under SpecManager): no call of a public
\* method other than the sweep, getActiveContextsCount included, removes or
\* replaces a stored context.
C14_ManagerKeepsKeys ==
    [][(CallGetActiveContextsCount
          \/ (\E u \in UserKeys : CallGetUserContext(u))
          \/ (\E p \in PostKeys, t \in TopicArgs : CallGetPostContext(p, t))
          \/ CallerWrites)
        => /\ \A k \in DOMAIN userContexts :
                 k \in DOMAIN userContexts' /\ userContexts'[k] = userContexts[k]
           /\ \A k \in DOMAIN postContexts :
                 k \in DOMAIN postContexts' /\ postContexts'[k] = postContexts[k]]_vars

(***************************************************************************)
(* TelegramBot.handleIncomingMessage: the dispatch of an update            *)
(***************************************************************************)
\* MessageParser.isChannelPost(message)
isChannelPost(message) ==
    LET isForwardedChannel == message.forwardFromChannel
        isAutoAddedPost == ~message.hasFrom /\ message.senderChatChannel
    IN isForwardedChannel \/ isAutoAddedPost

\* getIgnoreThreshold(): a configured number of minutes that is not 0 counts
\* back from the current time, otherwise the threshold is startupTime.
getIgnoreThreshold ==
    IF config.ignoreMins # NoOverride /\ config.ignoreMins # 0
    THEN now - config.ignoreMins * 60 * 1000
    ELSE config.startupTime

\* isOldMessage taking a message at the threshold for old as well.
isOldMessage_AtThreshold(message) == message.date * 1000 <= getIgnoreThreshold

\* const isOldMessage = messageTime < ignoreOlderThan
isOldMessage(message) == message.date * 1000 < getIgnoreThreshold

\* The branch of handleIncomingMessage with the age tested before the kind of
\* message: an old channel post is not commented.
Route_AgeFirst(message) ==
    IF ~message.hasText THEN "none"
    ELSE IF isChannelPost(message) /\ ~isOldMessage(message)
            /\ message.random < config.commentProbability
    THEN "commentPost"
    ELSE IF (message.replyToBot \/ message.mentioned) /\ ~isOldMessage(message)
    THEN "handleDirectMessage"
    ELSE IF isOldMessage(message) /\ (message.replyToBot \/ message.mentioned)
    THEN "logIgnoredOldMessage"
    ELSE "ignored"

\* The branch of handleIncomingMessage handling an old addressed message too.
Route_NoAgeTest(message) ==
    IF ~message.hasText THEN "none"
    ELSE IF isChannelPost(message) /\ message.random < config.commentProbability
    THEN "commentPost"
    ELSE IF message.replyToBot \/ message.mentioned
    THEN "handleDirectMessage"
    ELSE "ignored"

\* The branch handleIncomingMessage takes for a message.
Route(message) ==
    IF ~message.hasText THEN "none"
    ELSE IF isChannelPost(message) /\ message.random < config.commentProbability
    THEN "commentPost"
    ELSE IF (message.replyToBot \/ message.mentioned) /\ ~isOldMessage(message)
    THEN "handleDirectMessage"
    ELSE IF isOldMessage(message) /\ (message.replyToBot \/ message.mentioned)
    THEN "logIgnoredOldMessage"
    ELSE "ignored"

\* handleIncomingMessage(ctx) up to the first await of the handler it calls.
\* commentPost returns at once for a text under MIN_TEXT_LENGTH.
HandleIncomingMessage(h, message) ==
    /\ handlers[h].pc = "idle"
    /\ config' = config
    /\ update' = [message EXCEPT !.route = Route(message)]
    /\ UNCHANGED pvars
    /\ CASE Route(message) = "commentPost" /\ ~message.tooShort ->
                ReceivePost(h, 101)
         [] Route(message) = "handleDirectMessage" ->
                ReceiveDirect(h, 1, message.replyToPost,
                              IF message.mentioned THEN DefaultText ELSE <<Word>>)
         [] OTHER -> UNCHANGED mvars

\* bot.launch() resolves: startupTime is set again.
Launched ==
    /\ ~config.launched
    /\ config' = [config EXCEPT !.startupTime = now, !.launched = TRUE]
    /\ UNCHANGED <<mvars, update, pvars>>

\* The dates (in seconds) at, and a second before, every time a threshold can
\* be at, and a date two hours before the start.
Dates ==
    {c \div 1000 + d : c \in {config.startupTime, now - 10 * 60 * 1000},
                       d \in {-1, 0}}
        \cup {config.startupTime \div 1000 - 7200}

\* forward_from_chat, from and sender_chat of a channel post (forwarded from a
\* channel; relayed from the linked channel) and of a message of a user
\* (plain; sent on behalf of a channel).
PostShapes ==
    {[forwardFromChannel |-> TRUE, hasFrom |-> TRUE, senderChatChannel |-> FALSE],
     [forwardFromChannel |-> FALSE, hasFrom |-> FALSE, senderChatChannel |-> TRUE]}
UserShapes ==
    {[forwardFromChannel |-> FALSE, hasFrom |-> TRUE, senderChatChannel |-> FALSE],
     [forwardFromChannel |-> FALSE, hasFrom |-> TRUE, senderChatChannel |-> TRUE]}

Message(shape, date, replyToBot, mentioned, tooShort, random) ==
    [hasText |-> TRUE, date |-> date,
     forwardFromChannel |-> shape.forwardFromChannel, hasFrom |-> shape.hasFrom,
     senderChatChannel |-> shape.senderChatChannel,
     replyToBot |-> replyToBot, replyToPost |-> FALSE, mentioned |-> mentioned,
     tooShort |-> tooShort, random |-> random, route |-> "received"]

\* The updates Telegram delivers: a message without text or caption, channel
\* posts old and new, and messages of users.
Updates ==
    {[NoUpdate EXCEPT !.route = "received"]}
        \cup {Message(sh, d, r, r, short, rnd) :
                 sh \in PostShapes,
                 d \in {config.startupTime \div 1000 - 7200, now \div 1000},
                 r \in BOOLEAN, short \in BOOLEAN, rnd \in {0, 99}}
        \cup {Message(sh, d, r, m, FALSE, 0) :
                 sh \in UserShapes, d \in Dates, r \in BOOLEAN, m \in BOOLEAN}

OverrideMins == {NoOverride, 0, 10}

InitDispatch ==
    /\ \E mins \in OverrideMins : config = [DefaultConfig EXCEPT !.ignoreMins = mins]
    /\ update = NoUpdate
    /\ supervisor = NoSupervisor
    /\ workers = NoWorkers
    /\ now = 0
    /\ heap = EmptyMap
    /\ appended = EmptyMap
    /\ userContexts = EmptyMap
    /\ postContexts = EmptyMap
    /\ handlers = [h \in Hids |-> Idle]
    /\ received = 0
    /\ posted = 0
    /\ pctx = NoContext
    /\ prompt = <<>>

NextDispatch ==
    \/ now \div BASE_TTL_MS < MaxDispatchEpochs /\ Tick /\ UNCHANGED dvars
    \/ Launched
    \/ \E m \in Updates :
          /\ Route(m) \in {"commentPost", "handleDirectMessage"}
                => received + posted < MaxDispatchMsgs
          /\ HandleIncomingMessage(1, m)
    \/ TypingDone(1) /\ UNCHANGED dvars
    \/ PostTopicDone(1, "topic A") /\ UNCHANGED dvars
    \/ ApiSuccess(1, "reply") /\ UNCHANGED dvars
    \/ SendDone(1, TRUE) /\ UNCHANGED dvars

SpecDispatch == InitDispatch /\ [][NextDispatch]_vars

\* A message with text that is a channel post: forwarded from a channel, or
\* without sender and with a channel as sender_chat.
ChannelPost(m) ==
    m.hasText /\ (m.forwardFromChannel \/ (~m.hasFrom /\ m.senderChatChannel))

\* A message with text that is no channel post and replies to the bot or
\* mentions it.
Addressed(m) == m.hasText /\ ~ChannelPost(m) /\ (m.replyToBot \/ m.mentioned)

\* The message of the update a step passes to handleIncomingMessage, as it
\* was received.
Dispatched == [update' EXCEPT !.route = "received"]

\* C15: with the comment probability of 100%, every update with text that is a
\* channel post is routed to commentPost whatever its date, older than the
\* threshold included, and whether or not it mentions the bot or replies to
\* it; unless the text is under the minimum length the comment handling
\* starts.
C15_ChannelPostAlwaysRouted ==
    [][LET m == Dispatched IN
          HandleIncomingMessage(1, m) /\ ChannelPost(m) =>
             /\ update'.route = "commentPost"
             /\ ~m.tooShort =>
                   /\ handlers'[1].kind = "post"
                   /\ handlers'[1].pc = "postTopic"
                   /\ posted' = posted + 1]_vars

\* C15 witness: a channel post dated two hours before the start, which also
\* mentions the bot and replies to it, is being commented.
C15_Witness ==
    /\ update.route = "commentPost"
    /\ update.date * 1000 < config.startupTime
    /\ update.date * 1000 < now - 10 * 60 * 1000
    /\ update.mentioned /\ update.replyToBot
    /\ handlers[1].kind = "post" /\ handlers[1].pc = "postTopic"

\* C16 as stated: an addressed message is routed to handleDirectMessage exactly
\* when its date in milliseconds is at or after the cutoff: startupTime when
\* no override is configured, the current time minus the configured minutes
\* otherwise.
C16_FreshIffAtOrAfterCutoff ==
    [][LET m == Dispatched IN
          HandleIncomingMessage(1, m) /\ Addressed(m) =>
             LET cutoff == IF config.ignoreMins = NoOverride
                           THEN config.startupTime
                           ELSE now - config.ignoreMins * 60 * 1000
             IN /\ (update'.route = "handleDirectMessage") <=> (m.date * 1000 >= cutoff)
                /\ (handlers'[1].kind = "direct") <=> (m.date * 1000 >= cutoff)]_vars

\* C16 amended: the same, the cutoff being startupTime also when the
\* configured number of minutes is 0.
C16_FreshIffAtOrAfterThreshold ==
    [][LET m == Dispatched IN
          HandleIncomingMessage(1, m) /\ Addressed(m) =>
             LET cutoff == IF config.ignoreMins \in {NoOverride, 0}
                           THEN config.startupTime
                           ELSE now - config.ignoreMins * 60 * 1000
             IN /\ (update'.route = "handleDirectMessage") <=> (m.date * 1000 >= cutoff)
                /\ (handlers'[1].kind = "direct") <=> (m.date * 1000 >= cutoff)]_vars

\* C16 witness: with an override of 10 minutes, a mention dated exactly 10
\* minutes before the current time is being handled as a direct message.
C16_Witness ==
    /\ config.ignoreMins = 10
    /\ update.route = "handleDirectMessage"
    /\ update.mentioned /\ ~update.replyToBot
    /\ update.date * 1000 = now - 10 * 60 * 1000
    /\ handlers[1].kind = "direct" /\ handlers[1].pc = "typing"

\* C16 witness without override: a reply to the bot dated exactly at
\* startupTime, set when the launch ended, is being handled.
C16_AtStartupHandled ==
    /\ config.ignoreMins = NoOverride
    /\ config.startupTime > 0
    /\ update.route = "handleDirectMessage"
    /\ update.replyToBot
    /\ update.date * 1000 = config.startupTime
    /\ handlers[1].kind = "direct"

\* C17: an update that is no channel post and is either addressed to the bot
\* but older than the threshold, or not addressed to it at all, has no
\* effect: no context is created or changed in either namespace, no handler
\* starts (so no completion call, no topic inference, no outbound message).
C17_DroppedHasNoEffect ==
    [][LET m == Dispatched IN
          /\ HandleIncomingMessage(1, m)
          /\ m.hasText /\ ~ChannelPost(m)
          /\ \/ Addressed(m) /\ m.date * 1000 < getIgnoreThreshold
             \/ ~Addressed(m)
          => /\ UNCHANGED <<heap, userContexts, postContexts, handlers, appended,
                            received, posted>>
             /\ update'.route \in {"logIgnoredOldMessage", "ignored"}]_vars

\* C17 witness: with a user context stored and no handler running, a mention
\* dated before the threshold has been logged and dropped.
C17_Witness ==
    /\ update.route = "logIgnoredOldMessage"
    /\ update.mentioned
    /\ update.date * 1000 < getIgnoreThreshold
    /\ handlers[1].pc = "idle"
    /\ userContexts # EmptyMap

\* C17 witness of the other case: a message of a user that neither mentions
\* the bot nor replies to it has been ignored.
C17_UnaddressedIgnored ==
    /\ update.route = "ignored"
    /\ update.hasText /\ ~update.mentioned /\ ~update.replyToBot
    /\ update.date * 1000 >= getIgnoreThreshold
    /\ handlers[1].pc = "idle"
    /\ userContexts # EmptyMap

(***************************************************************************)
(* The order of a channel-post handling and of a direct-message handling   *)
(***************************************************************************)
\* The handler is inside callApiWithRetry.
InGateway(hrec) == hrec.pc \in {"api", "backoff"}

\* The two turns updatePostContext pushes for this post and this reply.
PostTurns(postId, reply) ==
    <<ChatMessage("user", "post", postId, ""), ChatMessage("assistant", reply, postId, "")>>

Texts == UNION {[1..n -> {Handle, Word}] : n \in 1..MaxWords}

AllReplyTags == ReplyTags \cup {"long"}

\* The errors of SomeErrors, a timeout of the socket, a connection that never
\* got a response, and responses with status 400 and 500.
DirectErrors ==
    SomeErrors \cup
    { [isAxios |-> TRUE, code |-> "ETIMEDOUT", msgTimeout |-> FALSE,
       msgNetwork |-> FALSE, status |-> NoResponse],
      [isAxios |-> TRUE, code |-> "ERR_BAD_REQUEST", msgTimeout |-> FALSE,
       msgNetwork |-> TRUE, status |-> NoResponse],
      [isAxios |-> TRUE, code |-> "ERR_BAD_REQUEST", msgTimeout |-> FALSE,
       msgNetwork |-> FALSE, status |-> 400],
      [isAxios |-> TRUE, code |-> "ERR_BAD_REQUEST", msgTimeout |-> FALSE,
       msgNetwork |-> FALSE, status |-> 500] }

NextDirect ==
    \/ \E r \in BOOLEAN, text \in Texts :
          received < MaxDirectMsgs /\ ReceiveDirect(1, 1, r, text) /\ UNCHANGED dvars
    \/ DirectTopicDone(1, "topic A") /\ UNCHANGED dvars
    \/ TypingDone(1) /\ UNCHANGED dvars
    \/ \E t \in AllReplyTags : ApiSuccess(1, t) /\ UNCHANGED dvars
    \/ \E e \in DirectErrors : ApiFailure(1, e) /\ UNCHANGED dvars
    \/ BackoffDone(1) /\ UNCHANGED dvars
    \/ \E ok \in BOOLEAN : SendDone(1, ok) /\ UNCHANGED dvars
    \/ \E ok \in BOOLEAN : ErrReplyDone(1, ok) /\ UNCHANGED dvars

SpecDirect == Init /\ [][NextDirect]_vars

\* The text with no occurrence of the handle left.
WithoutHandle(text) == SelectSeq(text, LAMBDA w : w # Handle)

Last(s) == s[Len(s)]

\* The steps of a direct-message handling, Clean(text) being the user turn.
\* While inferPostTopic runs the context is active, no user turn is appended
\* and no prompt is built. When processUserMessage reaches its first await
\* the context is active, the newest entry of its history and the last entry
\* of the prompt are the user turn of this message, and nothing was called or
\* sent. Until the completion call returns the prompt stays as built, nothing
\* is appended and nothing is sent. When it returns a reply the assistant turn
\* with the sanitized reply is appended, and after that the one message handed
\* to the delivery is that sanitized reply.
DirectHandlingOrder(Clean(_)) ==
    LET h == handlers[1]
        h2 == handlers'[1]
    IN /\ h2.kind = "direct" /\ h2.pc = "topic" =>
             /\ heap'[h2.ctx].activeConversation
             /\ h2.messages = <<>>
             /\ \A i \in 1..Len(appended'[h2.ctx]) :
                    appended'[h2.ctx][i].content.id # h2.msgId
       /\ h2.kind = "direct" /\ h.pc \in {"idle", "topic"} /\ h2.pc = "typing" =>
             /\ heap'[h2.ctx].activeConversation
             /\ Last(heap'[h2.ctx].messages) = UserTurn(Clean(h2.text), h2.msgId)
             /\ Last(appended'[h2.ctx]) = UserTurn(Clean(h2.text), h2.msgId)
             /\ Last(h2.messages) = UserTurn(Clean(h2.text), h2.msgId)
             /\ h2.calls = 0
             /\ h2.sent = <<>>
       /\ h.kind = "direct" /\ h.pc \in {"typing", "api", "backoff"}
             /\ h2.pc \in {"typing", "api", "backoff"} =>
             /\ h2.messages = h.messages
             /\ appended'[h.ctx] = appended[h.ctx]
             /\ h2.sent = <<>>
       /\ \A t \in AllReplyTags :
             h.kind = "direct" /\ ApiSuccess(1, t) =>
                LET turn == ChatMessage("assistant", sanitizeResponse(t), h.msgId, "")
                IN /\ h2.calls = 1
                   /\ t = "short" => sanitizeResponse(t) # t
                   /\ appended'[h.ctx] = Append(appended[h.ctx], turn)
                   /\ Last(heap'[h.ctx].messages) = turn
                   /\ h.sent = <<>>
                   /\ h2.sent = <<OutMessage(sanitizeResponse(t), h.msgId)>>

\* C19: in a direct-message handling the context is marked active and the
\* user turn is appended before the prompt is built, so that the last entry of
\* the prompt is the user turn of the message with the handle of the bot
\* stripped; the assistant turn is appended only after the completion call
\* returned a reply, holds the sanitized reply, and is appended before the
\* reply is handed to the delivery.
C19_DirectHandlingOrder == [][DirectHandlingOrder(WithoutHandle)]_vars

\* The same order with the user turn as cleanMentionFromText leaves it: the
\* text with the first occurrence of the handle removed.
C19_OrderFirstHandleRemoved == [][DirectHandlingOrder(cleanMentionFromText)]_vars

\* A prompt whose last entry, the user turn of the message in hand, still
\* holds the handle of the bot.
C19_HandleLeftInPrompt ==
    /\ handlers[1].kind = "direct"
    /\ handlers[1].pc = "api"
    /\ Last(handlers[1].messages).content.id = handlers[1].msgId
    /\ isBotMentioned(Last(handlers[1].messages).content.words)

\* The direct-message handling has caught a failure of its completion call
\* and is sending the message of handleMessageError.
GatewayFailed(hrec) ==
    hrec.kind = "direct" /\ hrec.pc = "errReply" /\ hrec.thrown.attempt >= 1

Overloaded(error) == error.isAxios /\ error.status = 429
TimedOut(error) == error.isAxios /\ error.code \in {"ECONNABORTED", "ETIMEDOUT"}

\* C20: a direct-message handling whose completion call fails never ends
\* thrown: it returns when its error message is delivered. It hands one
\* message to the delivery, in reply to the message of the user (and, only
\* when that send is rejected, the same apology once more without the reply
\* id): the overloaded message for a response with status 429, the
\* shorter-request message for a timeout, the apology when the retries are
\* used up on another network failure.
C20_OneMessagePerGatewayFailure ==
    [][LET h == handlers[1]
           e == h.thrown.err
       IN /\ h.kind = "direct" => h.pc # "thrown"
          /\ GatewayFailed(h) =>
                /\ h.calls = 1
                /\ Len(h.sent) \in {1, 2}
                /\ h.sent[1].replyTo = h.msgId
                /\ Len(h.sent) = 2 =>
                      /\ h.sent[1].text = "apology"
                      /\ h.sent[2] = OutMessage("apology", NoReplyTo)
                /\ Overloaded(e) => h.sent[1].text = "overloaded"
                /\ TimedOut(e) /\ ~Overloaded(e) => h.sent[1].text = "shorter request"
                /\ isNetworkError(e) /\ h.retryCount = h.maxRetries
                      /\ ~TimedOut(e) /\ ~Overloaded(e) => h.sent[1].text = "apology"
                /\ ErrReplyDone(1, TRUE) => Len(h.sent) \in {1, 2} /\ handlers'[1] = Idle
      ]_vars

\* C20 witness: three attempts have timed out, the retries are used up, and
\* the shorter-request message is being sent in reply to the user.
C20_Witness ==
    /\ GatewayFailed(handlers[1])
    /\ handlers[1].attempts = DEFAULT_RETRIES
    /\ handlers[1].thrown.err.code = "ECONNABORTED"
    /\ handlers[1].thrown.err.status = NoResponse
    /\ handlers[1].sent = <<OutMessage("shorter request", handlers[1].msgId)>>

\* C20 witness of the apology: the retries are used up on reset connections.
C20_ApologyAfterRetries ==
    /\ GatewayFailed(handlers[1])
    /\ handlers[1].attempts = DEFAULT_RETRIES
    /\ handlers[1].thrown.err.code = "ECONNRESET"
    /\ ~handlers[1].thrown.err.msgTimeout
    /\ handlers[1].sent = <<OutMessage("apology", handlers[1].msgId)>>

\* C20 witness of the overloaded message: the first attempt got status 429.
C20_OverloadedAt429 ==
    /\ GatewayFailed(handlers[1])
    /\ handlers[1].attempts = 1
    /\ handlers[1].thrown.err.status = 429
    /\ handlers[1].sent = <<OutMessage("overloaded", handlers[1].msgId)>>

(***************************************************************************)
(* Events and failures: every kind of update, every outcome of the         *)
(* completion call and of every send.                                      *)
(***************************************************************************)
\* A message of a user, plain.
PlainShape == [forwardFromChannel |-> FALSE, hasFrom |-> TRUE, senderChatChannel |-> FALSE]

\* An update without text, a channel post long enough and one too short, a
\* mention, a mention in reply to a channel post, a reply to the bot, a
\* mention dated before the start, and a message that is not addressed.
Events ==
    {[NoUpdate EXCEPT !.route = "received"]}
        \cup {Message(sh, 0, FALSE, FALSE, short, 0) :
                 sh \in PostShapes, short \in BOOLEAN}
        \cup {Message(PlainShape, 0, FALSE, TRUE, FALSE, 0),
              [Message(PlainShape, 0, FALSE, TRUE, FALSE, 0) EXCEPT !.replyToPost = TRUE],
              Message(PlainShape, 0, TRUE, FALSE, FALSE, 0),
              Message(PlainShape, -7200, FALSE, TRUE, FALSE, 0),
              Message(PlainShape, 0, FALSE, FALSE, FALSE, 0)}

\* A request or a send in flight settles.
Settle ==
    \/ \E t \in Topics : DirectTopicDone(1, t) /\ UNCHANGED dvars
    \/ TypingDone(1) /\ UNCHANGED dvars
    \/ \E t \in Topics : PostTopicDone(1, t) /\ UNCHANGED dvars
    \/ \E t \in ReplyTags : ApiSuccess(1, t) /\ UNCHANGED dvars
    \/ \E e \in SomeErrors : ApiFailure(1, e) /\ UNCHANGED dvars
    \/ BackoffDone(1) /\ UNCHANGED dvars
    \/ \E ok \in BOOLEAN : SendDone(1, ok) /\ UNCHANGED dvars
    \/ \E ok \in BOOLEAN : ErrReplyDone(1, ok) /\ UNCHANGED dvars

NextEvents ==
    \/ \E m \in Events :
          /\ Route(m) \in {"commentPost", "handleDirectMessage"}
                => received + posted < MaxEventMsgs
          /\ HandleIncomingMessage(1, m)
    \/ Settle

SpecEvents == Init /\ [][NextEvents]_vars

\* Every request and every send settles: each has a timeout or is answered.
SpecEventsFair == SpecEvents /\ WF_vars(Settle)

\* The positions of a handling that is waiting for a collaborator.
Waiting ==
    {"topic", "typing", "postTopic", "api", "backoff", "send", "sendRetry", "sendPlain",
     "sendPlainRetry", "errReply"}

C21_ErrorMessageInFlight ==
    /\ handlers[1].pc = "errReply"
    /\ handlers[1].kind = "direct"
    /\ handlers[1].thrown.err.status = 429

\* The handling has sent its reply: the first message it passed to ctx.reply
\* is the reply, with the id of the inbound message as reply id.
ReplySent(hrec) ==
    /\ hrec.sent # <<>>
    /\ hrec.sent[1] = OutMessage(hrec.reply, hrec.msgId)

\* C22: when the send of a reply with its reply id is rejected, the same text
\* is sent once more without the reply id, and when that is rejected too the
\* failure is dropped: the handling passes at most these two messages to
\* ctx.reply, the second being the reply without the reply id, and it is
\* never left thrown.
C22_RetriedOnceThenDropped ==
    LET h == handlers[1]
    IN ReplySent(h) =>
          /\ Len(h.sent) <= 2
          /\ Len(h.sent) = 2 => h.sent[2] = OutMessage(h.reply, NoReplyTo)
          /\ h.pc # "thrown"

\* Both sends of the reply to a direct message were rejected, and the apology
\* is being sent as a third message for the same update.
C22_ApologyAfterDroppedReply ==
    /\ handlers[1].kind = "direct"
    /\ handlers[1].pc = "errReply"
    /\ ReplySent(handlers[1])
    /\ handlers[1].sent = <<OutMessage("reply", handlers[1].msgId),
                            OutMessage("reply", NoReplyTo),
                            OutMessage("apology", handlers[1].msgId)>>

\* The comment on a post is being sent for the fourth time: sendPostComment
\* has repeated the two sends of sendSingleMessage.
C22_CommentSentFourTimes ==
    /\ handlers[1].kind = "post"
    /\ handlers[1].pc = "sendPlainRetry"
    /\ Len(handlers[1].sent) = 4

\* The retry as far as it goes by the claim: after the rejected first send the
\* second message is the same text without the reply id, and the handling is
\* never left thrown.
C22_SecondSendWithoutReplyId ==
    LET h == handlers[1]
    IN ReplySent(h) =>
          /\ Len(h.sent) >= 2 => h.sent[2] = OutMessage(h.reply, NoReplyTo)
          /\ h.pc # "thrown"

(***************************************************************************)
(* The sweep timer: a user and a post, every call succeeding, the clock    *)
(* advancing and the interval timer firing again and again.                *)
(***************************************************************************)
\* Time passes, up to the end of the run.
SweepTick ==
    /\ now \div BASE_TTL_MS < MaxSweepEpochs
    /\ now' = now + BASE_TTL_MS
    /\ UNCHANGED <<heap, appended, userContexts, postContexts, handlers, received, posted,
                   pctx, prompt, dvars>>

\* The callback of setInterval runs.
SweepTimer == cleanupOldContexts /\ UNCHANGED dvars

NextSweep ==
    \/ SweepTick
    \/ SweepTimer
    \/ \E r \in BOOLEAN :
          received + posted < MaxSweepMsgs /\ ReceiveDirect(1, 1, r, DefaultText)
             /\ UNCHANGED dvars
    \/ DirectTopicDone(1, "topic A") /\ UNCHANGED dvars
    \/ TypingDone(1) /\ UNCHANGED dvars
    \/ received + posted < MaxSweepMsgs /\ ReceivePost(1, 101) /\ UNCHANGED dvars
    \/ PostTopicDone(1, "topic A") /\ UNCHANGED dvars
    \/ ApiSuccess(1, "reply") /\ UNCHANGED dvars
    \/ SendDone(1, TRUE) /\ UNCHANGED dvars

SpecSweep == Init /\ [][NextSweep]_vars

\* The clock advances and the interval timer keeps firing. Nothing is assumed
\* of the handlers: no message need ever arrive, no request need ever settle.
SpecSweepFair == SpecSweep /\ WF_vars(SweepTick) /\ WF_vars(SweepTimer)

\* The last time of the run.
EndOfTime == MaxSweepEpochs * BASE_TTL_MS

\* The key is mapped to a context last used at time t that no handler holds
\* and whose TTL runs out before the end of the run.
StoredSince(map, key, t) ==
    /\ key \in DOMAIN map
    /\ heap[map[key]].lastInteraction = t
    /\ t + ContextTtl(heap[map[key]]) < EndOfTime
    /\ \A h \in Hids : handlers[h].ctx # map[key]

\* The key is gone, or a handler has fetched its context again.
RemovedOrAccessed(map, key) ==
    \/ key \notin DOMAIN map
    \/ \E h \in Hids : handlers[h].ctx = map[key]

\* C23: with the clock advancing and the sweep timer firing, a context of
\* either namespace that no handler fetches again is eventually removed from
\* its namespace, whatever the handlers do or do not do meanwhile.
C23_UnusedContextEventuallyRemoved ==
    /\ \A k \in UserKeys, e \in 0..MaxSweepEpochs :
          StoredSince(userContexts, k, e * BASE_TTL_MS)
             ~> RemovedOrAccessed(userContexts, k)
    /\ \A k \in PostKeys, e \in 0..MaxSweepEpochs :
          StoredSince(postContexts, k, e * BASE_TTL_MS)
             ~> RemovedOrAccessed(postContexts, k)

\* C23 witness: the context of an active conversation, last used at time 0 and
\* held by no handler, has outlived ACTIVE_TTL_MS and is still stored: the next
\* run of the timer removes it.
C23_Witness ==
    /\ StoredSince(userContexts, 1, 0)
    /\ heap[userContexts[1]].activeConversation
    /\ now - 0 > ACTIVE_TTL_MS
    /\ handlers[1].pc = "idle"

(***************************************************************************)
(* ApiService.inferPostTopic, character by character.  A text is a         *)
(* sequence of characters; the specification SpecTopic draws the text and  *)
(* the outcome of the completion request and runs one call.                *)
(***************************************************************************)
Terminators == {".", "!", "?"}     \* [.!?] of the fallback expression
LineBreaks == {"\n"}               \* what '.' of a regular expression skips
Whitespace == {" ", "\n"}          \* what String.prototype.trim removes
Strippable == {"\"", "'", "."}     \* ["'.] of the clean-up expression

Rep(c, n) == [i \in 1..n |-> c]

RECURSIVE DropWhile(_, _)
DropWhile(s, set) ==
    IF s # <<>> /\ Head(s) \in set THEN DropWhile(Tail(s), set) ELSE s

RECURSIVE DropEndWhile(_, _)
DropEndWhile(s, set) ==
    IF s # <<>> /\ s[Len(s)] \in set
    THEN DropEndWhile(SubSeq(s, 1, Len(s) - 1), set) ELSE s

\* String.prototype.trim
trim(s) == DropEndWhile(DropWhile(s, Whitespace), Whitespace)

\* String.prototype.substring(from, to), from and to counted from 0
substring(s, from, to) == SubSeq(s, from + 1, Min(to, Len(s)))

\* topic.replace(/["'.]+$|^["'.]+/g, ""): the leading and the trailing run of
\* quotes and periods go.
StripQuotes(s) == DropEndWhile(DropWhile(s, Strippable), Strippable)

\* The constant label of inferPostTopic, ten characters, in Latin letters.
FallbackLabel == <<"O", "b", "c", "a", "j", " ", "t", "e", "m", "a">>

MIN_TOPIC_TEXT == 10      \* postText.length < 10
TOPIC_PREFIX == 50        \* .{1,50}
TOPIC_INPUT == 500        \* postText.substring(0, 500)

\* The number of characters before the first line break, up to n.
RECURSIVE LineRun(_, _)
LineRun(s, n) ==
    IF n = 0 \/ s = <<>> \/ Head(s) \in LineBreaks THEN 0
    ELSE 1 + LineRun(Tail(s), n - 1)

\* null of String.prototype.match; a match of the expression is never empty.
NoMatch == <<>>

\* Only the second alternative of the expression.
TopicMatch_NoSentence(postText) ==
    LET run == LineRun(postText, TOPIC_PREFIX)
    IN IF run >= 1 THEN SubSeq(postText, 1, run) ELSE NoMatch

\* postText.match(/^(.{1,50})[.!?]|^(.{1,50})/)[0].  The quantifier is greedy:
\* the first alternative takes the longest run of 1..50 characters of the
\* first line that a terminator follows; the second one takes the first 50
\* characters of the first line.
TopicMatch(postText) ==
    LET run == LineRun(postText, TOPIC_PREFIX)
        ends == {k \in 1..run : k + 1 <= Len(postText)
                                 /\ postText[k + 1] \in Terminators}
    IN IF ends # {}
       THEN SubSeq(postText, 1, 1 + CHOOSE k \in ends : \A j \in ends : j <= k)
       ELSE IF run >= 1 THEN SubSeq(postText, 1, run) ELSE NoMatch

\* The request of inferPostTopic: the instruction and the first 500
\* characters of the text.
TopicRequest(postText) ==
    << [role |-> "system",
        content |-> [tag |-> "infer topic", id |-> 0, topic |-> "", words |-> <<>>]],
       [role |-> "user",
        content |-> [tag |-> "text", id |-> 0, topic |-> "",
                     words |-> substring(postText, 0, TOPIC_INPUT)]] >>

\* The outcomes of callDeepseekApi: a response with a string content, a
\* response without one (no choices, a null content: a TypeError), or an error
\* of axios.
ContentChars == {"a", ".", "\"", " "}
MaxContentLen == 3
Contents == UNION {[1..n -> ContentChars] : n \in 0..MaxContentLen}
Outcomes ==
    [kind : {"content"}, content : Contents]
       \cup [kind : {"malformed", "network", "timeout", "rate limit"},
             content : {<<>>}]

\* The same without the fallback label for an empty result.
InferResolved_NoLabel(postText, outcome) ==
    IF outcome.kind = "content"
    THEN StripQuotes(trim(outcome.content))
    ELSE TopicMatch(postText)

\* inferPostTopic after its await: the cleaned response, or in the catch block
\* the match of the fallback expression; the label when either is empty.
InferResolved(postText, outcome) ==
    IF outcome.kind = "content"
    THEN LET topic == StripQuotes(trim(outcome.content))
         IN IF topic # <<>> THEN topic ELSE FallbackLabel
    ELSE LET topicMatch == TopicMatch(postText)
         IN IF topicMatch # NoMatch THEN topicMatch ELSE FallbackLabel

\* The same without the test of the length.
InferStart_AlwaysAsks(h) ==
    /\ handlers[h].pc = "infer"
    /\ handlers' = [handlers EXCEPT ![h].pc = "inferApi",
                                    ![h].calls = @ + 1,
                                    ![h].messages = TopicRequest(handlers[h].text)]
    /\ UNCHANGED <<now, heap, appended, userContexts, postContexts, received,
                   posted, pctx, prompt>>

\* inferPostTopic(postText) up to its await: a text shorter than 10 characters
\* gets the label at once, any other text is sent to the completion API.
InferStart(h) ==
    /\ handlers[h].pc = "infer"
    /\ IF Len(handlers[h].text) < MIN_TOPIC_TEXT
       THEN handlers' = [handlers EXCEPT ![h].pc = "inferred",
                                         ![h].topic = FallbackLabel]
       ELSE handlers' = [handlers EXCEPT ![h].pc = "inferApi",
                                         ![h].calls = @ + 1,
                                         ![h].messages = TopicRequest(handlers[h].text)]
    /\ UNCHANGED <<now, heap, appended, userContexts, postContexts, received,
                   posted, pctx, prompt>>

\* The request settles and inferPostTopic returns.
InferDone(h, outcome) ==
    /\ handlers[h].pc = "inferApi"
    /\ handlers' = [handlers EXCEPT ![h].pc = "inferred",
                                    ![h].result = outcome,
                                    ![h].topic = InferResolved(handlers[h].text, outcome)]
    /\ UNCHANGED <<now, heap, appended, userContexts, postContexts, received,
                   posted, pctx, prompt>>

\* The texts: up to MaxBlocks pieces, each a word, a sentence, a long run of
\* letters, blanks, a line break or a terminator.
TextBlocks ==
    { Rep("a", 4), Rep("a", 4) \o <<".", " ">>, Rep("a", 46), Rep("a", 460),
      Rep(" ", 6), <<"\n">>, <<".">>, <<"!">>, <<"?">> }
MaxBlocks == 3

RECURSIVE Concat(_)
Concat(ss) == IF ss = <<>> THEN <<>> ELSE Head(ss) \o Concat(Tail(ss))

PostTexts == {Concat(bs) : bs \in UNION {[1..n -> TextBlocks] : n \in 0..MaxBlocks}}

InitTopic ==
    /\ config = DefaultConfig
    /\ update = NoUpdate
    /\ supervisor = NoSupervisor
    /\ workers = NoWorkers
    /\ now = 0
    /\ heap = EmptyMap
    /\ appended = EmptyMap
    /\ userContexts = EmptyMap
    /\ postContexts = EmptyMap
    /\ \E postText \in PostTexts :
          handlers = [h \in Hids |->
                         IF h = 1 THEN [Idle EXCEPT !.pc = "infer", !.text = postText]
                         ELSE Idle]
    /\ received = 0
    /\ posted = 0
    /\ pctx = NoContext
    /\ prompt = <<>>

NextTopic ==
    \/ InferStart(1) /\ UNCHANGED dvars
    \/ \E outcome \in Outcomes : InferDone(1, outcome) /\ UNCHANGED dvars

SpecTopic == InitTopic /\ [][NextTopic]_vars

Inferred == handlers[1].pc = "inferred"

\* C24: inferPostTopic always returns, with a topic that is not empty,
\* whatever the text and whatever the outcome of the request (a content, an
\* empty or malformed response, a network error, a timeout, a rate limit); it
\* makes at most one request and replies nothing to the user.
C24_TopicInferenceNeverFails ==
    /\ handlers[1].pc \in {"infer", "inferApi", "inferred"}
    /\ handlers[1].calls <= 1
    /\ handlers[1].sent = <<>>
    /\ handlers[1].pc = "inferApi" => handlers[1].calls = 1
    /\ Inferred => Len(handlers[1].topic) > 0

\* C24 witness: the request of a long text returned nothing but quotes and
\* periods, and the topic is the label.
C24_Witness ==
    /\ Inferred
    /\ handlers[1].calls = 1
    /\ handlers[1].result = [kind |-> "content", content |-> <<"\"", ".", "\"">>]
    /\ handlers[1].topic = FallbackLabel

\* C24: the request failed on the network, the text starts with a line break
\* and the fallback expression matches nothing: the topic is the label.
C24_FallbackOfFallback ==
    Inferred /\ handlers[1].calls = 1 /\ handlers[1].result.kind = "network"
        => (Head(handlers[1].text) \in LineBreaks
               => handlers[1].topic = FallbackLabel)

C24_FallbackOfFallbackWitness ==
    /\ Inferred /\ handlers[1].calls = 1 /\ handlers[1].result.kind = "network"
    /\ Head(handlers[1].text) \in LineBreaks

\* The request of topic inference was made and failed.
InferFailed ==
    Inferred /\ handlers[1].calls = 1 /\ handlers[1].result.kind # "content"

IsPrefix(t, s) == Len(t) <= Len(s) /\ SubSeq(s, 1, Len(t)) = t

OnFirstLine(t) == \A i \in 1..Len(t) : t[i] \notin LineBreaks

\* The positions of the terminators among the leading characters of s that
\* have a character before them.
LeadingTerminators(s) ==
    {n \in 2..Min(TOPIC_PREFIX + 1, Len(s)) : s[n] \in Terminators}

\* The prefix of s that ends at the first terminator among the leading
\* characters; the first 50 characters when there is none.
UpToFirstTerminator(s) ==
    IF LeadingTerminators(s) # {}
    THEN SubSeq(s, 1, CHOOSE n \in LeadingTerminators(s) :
                         \A j \in LeadingTerminators(s) : n <= j)
    ELSE SubSeq(s, 1, Min(TOPIC_PREFIX, Len(s)))

\* C25 as stated: after a failed request the topic is the prefix of the text
\* that ends at the first sentence terminator among the leading characters,
\* and the first 50 characters when there is no terminator there.
C25_UpToFirstTerminator ==
    InferFailed => handlers[1].topic = UpToFirstTerminator(handlers[1].text)

\* The prefixes of at most 51 characters of the first line of s that end with
\* a terminator, by their length.
SentencePrefixes(s) ==
    {n \in LeadingTerminators(s) : OnFirstLine(SubSeq(s, 1, n))}

\* C25: after a failed request the topic is the longest prefix of the first
\* line of the text that has at most 51 characters and ends with a sentence
\* terminator after at least one character; when there is no such prefix it is
\* the first 50 characters of the first line (all of it when it is shorter);
\* and it is the label when the text begins with a line break.
C25_UpToLastTerminatorOfFirstLine ==
    InferFailed =>
        LET s == handlers[1].text
            t == handlers[1].topic
        IN IF Head(s) \in LineBreaks THEN t = FallbackLabel
           ELSE /\ IsPrefix(t, s)
                /\ OnFirstLine(t)
                /\ IF SentencePrefixes(s) # {}
                   THEN /\ Len(t) \in SentencePrefixes(s)
                        /\ \A n \in SentencePrefixes(s) : n <= Len(t)
                   ELSE /\ Len(t) <= TOPIC_PREFIX
                        /\ \/ Len(t) = TOPIC_PREFIX
                           \/ Len(t) = Len(s)
                           \/ s[Len(t) + 1] \in LineBreaks

\* C25 witness: the request failed for a text of three short sentences; the
\* topic is all of them, not the first one.
C25_Witness ==
    /\ InferFailed
    /\ handlers[1].text = Concat(<<Rep("a", 4) \o <<".", " ">>,
                                   Rep("a", 4) \o <<".", " ">>,
                                   Rep("a", 4) \o <<".", " ">> >>)
    /\ Len(handlers[1].topic) = 17
    /\ Len(UpToFirstTerminator(handlers[1].text)) = 5

\* C25: a terminator right after 50 characters still ends the topic, which is
\* then 51 characters long.
C25_FiftyOneCharacters ==
    /\ InferFailed
    /\ Len(handlers[1].topic) = TOPIC_PREFIX + 1

\* The call of inferPostTopic returned the label without asking.
LabelAtOnce ==
    /\ handlers[1].pc \in {"infer", "inferred"}
    /\ handlers[1].calls = 0
    /\ handlers[1].messages = <<>>
    /\ Inferred => handlers[1].topic = FallbackLabel

\* C26 as stated: a text that has fewer than 10 characters once the blanks
\* around it are trimmed gets the label at once, and no request is made.
C26_ShortAfterTrimmingNoRequest ==
    Len(trim(handlers[1].text)) < MIN_TOPIC_TEXT => LabelAtOnce

\* C26: a text of fewer than 10 characters, blanks around it counted, gets the
\* label at once, and no request is made.
C26_ShortNoRequest ==
    Len(handlers[1].text) < MIN_TOPIC_TEXT => LabelAtOnce

\* C26 witness: a text of nine characters got the label, nothing was asked.
C26_Witness ==
    /\ Inferred
    /\ Len(handlers[1].text) = MIN_TOPIC_TEXT - 1
    /\ handlers[1].calls = 0
    /\ handlers[1].topic = FallbackLabel

\* C26: a word between blanks, sixteen characters in all and four of them
\* letters, is sent to the completion API.
C26_PaddedTextAsked ==
    /\ handlers[1].pc = "inferApi"
    /\ handlers[1].text = Rep(" ", 6) \o Rep("a", 4) \o Rep(" ", 6)
    /\ handlers[1].calls = 1

\* C27: building a prompt leaves the context as it was: the stored history
\* keeps its entries and their order, also when the window of the prompt is
\* the stored array itself, and no other field changes; the prompt is the
\* array the function built.
C27_PromptLeavesContextUnchanged ==
    [][BuildPrompt =>
          /\ pctx' = pctx
          /\ prompt' = PromptArrays(pctx).messages]_vars

\* C27 witness: a prompt was built from a history of three entries, short
\* enough for getRelevantMessages to return the stored array itself, and the
\* history still has its three entries.
C27_Witness ==
    /\ prompt # <<>>
    /\ Len(pctx.messages) = 3
    /\ getRelevantMessagesRef([stored |-> pctx.messages, messages |-> <<>>,
                               slice |-> <<>>]).ref = "stored"
    /\ SubSeq(prompt, Len(prompt) - 2, Len(prompt)) = pctx.messages

\* C27: the same for a history longer than the window, which is then a copy.
C27_LongHistory ==
    /\ prompt # <<>>
    /\ Len(pctx.messages) = MAX_LENGTH
    /\ SubSeq(prompt, Len(prompt) - RELEVANT_LENGTH + 1, Len(prompt))
          = SliceLast(pctx.messages, RELEVANT_LENGTH)

\* A namespace: its keys, each with the fields of its context.
UserNamespace == [k \in DOMAIN userContexts |-> heap[userContexts[k]]]
PostNamespace == [k \in DOMAIN postContexts |-> heap[postContexts[k]]]

\* C28: the two namespaces are independent.  A getUserContext call, and the
\* caller's writes to the context it returned, leave the keys and the
\* contexts of the post namespace as they were; a getPostContext call and the
\* writes to its context leave the user namespace as it was; and
\* getActiveContextsCount returns the number of keys of each namespace.
C28_NamespacesIndependent ==
    [][/\ \A u \in UserKeys : CallGetUserContext(u) => PostNamespace' = PostNamespace
       /\ CallerWrites /\ handlers[1].kind = "getUser" => PostNamespace' = PostNamespace
       /\ \A p \in PostKeys, t \in TopicArgs :
             CallGetPostContext(p, t) => UserNamespace' = UserNamespace
       /\ CallerWrites /\ handlers[1].kind = "getPost" => UserNamespace' = UserNamespace
       /\ CallGetActiveContextsCount =>
             /\ handlers'[1].result.users = Cardinality(DOMAIN userContexts')
             /\ handlers'[1].result.posts = Cardinality(DOMAIN postContexts')
             /\ UserNamespace' = UserNamespace
             /\ PostNamespace' = PostNamespace]_vars

\* C28 witness: with the context of a post stored, a user context was created
\* and written to; the post context is still empty.
C28_Witness ==
    /\ handlers[1].kind = "getUser" /\ handlers[1].pc = "written"
    /\ DOMAIN postContexts # {}
    /\ \A p \in DOMAIN postContexts :
          /\ postContexts[p] # handlers[1].ctx
          /\ heap[postContexts[p]].messages = <<>>
    /\ heap[handlers[1].ctx].messages # <<>>

\* C28: one user context and one post context are stored, and that is what
\* the count says.
C28_Counted ==
    /\ handlers[1].kind = "count"
    /\ handlers[1].result = [users |-> 1, posts |-> 1]
    /\ Cardinality(DOMAIN userContexts) = 1
    /\ Cardinality(DOMAIN postContexts) = 1

(***************************************************************************)
(* MessageSender.sendSplitMessage, by lengths.  A text is the sequence of  *)
(* the lengths of its sentences, the pieces that                           *)
(* text.split(/(?<=\.|\?|\!|\n)\s+/) gives; the sentences are one blank    *)
(* apart, and the text neither begins nor ends with a blank, so that       *)
(* trim() of a part leaves it as it is.  A message is modelled by the      *)
(* length of its text.                                                     *)
(***************************************************************************)
MSG_MAX_LENGTH == 4096     \* BOT_DEFAULTS.MESSAGES.MAX_LENGTH
MAX_SAFE_LENGTH == 4000    \* BOT_DEFAULTS.MESSAGES.MAX_SAFE_LENGTH
SPLIT_MARGIN == 30         \* MAX_LENGTH - 30
ELLIPSIS == 3              \* "..."
CUT_NOTE == 43             \* the bracketed note after "... " of a truncated text

RECURSIVE TextLen(_)
TextLen(sentences) ==
    IF sentences = <<>> THEN 0
    ELSE Head(sentences) + (IF Len(sentences) > 1 THEN 1 ELSE 0) + TextLen(Tail(sentences))

\* text.substring(0, n) of a text of at least n characters: the sentences it
\* holds in full, and the length of what it holds of the next one (0 when it
\* ends with the blank after a sentence).
RECURSIVE CutAt(_, _)
CutAt(sentences, n) ==
    IF Head(sentences) >= n THEN [full |-> <<>>, tail |-> n]
    ELSE IF Head(sentences) + 1 = n THEN [full |-> <<Head(sentences)>>, tail |-> 0]
    ELSE LET rest == CutAt(Tail(sentences), n - Head(sentences) - 1)
         IN [full |-> <<Head(sentences)>> \o rest.full, tail |-> rest.tail]

\* text.substring(0, MAX_LENGTH) + "... [note]": the periods end the sentence
\* that was cut, the note is a sentence of its own.
Truncated(sentences) ==
    LET cut == CutAt(sentences, MSG_MAX_LENGTH)
    IN cut.full \o <<cut.tail + ELLIPSIS, CUT_NOTE>>

RECURSIVE Digits(_)
Digits(n) == IF n < 10 THEN 1 ELSE 1 + Digits(n \div 10)

\* The length of `(${index + 1}/${parts.length}) `
PrefixLen(i, n) == 4 + Digits(i) + Digits(n)

\* The for loop of splitMessageIntoParts over the sentences left, with the
\* parts pushed so far and the length of currentPart.  It stops where a
\* sentence longer than MAX_LENGTH enters the while loop, with the sentences
\* after it and the length of remainingSentence.
RECURSIVE SplitLoop(_, _, _)
SplitLoop(sentences, parts, currentPart) ==
    IF sentences = <<>>
    THEN [loops |-> FALSE,
          parts |-> IF currentPart > 0 THEN Append(parts, currentPart) ELSE parts,
          rest |-> <<>>, remaining |-> 0]
    ELSE LET sentence == Head(sentences) IN
         IF currentPart + sentence > MSG_MAX_LENGTH - SPLIT_MARGIN
         THEN LET pushed == IF currentPart > 0 THEN Append(parts, currentPart) ELSE parts
              IN IF sentence > MSG_MAX_LENGTH
                 THEN [loops |-> TRUE, parts |-> pushed,
                       rest |-> Tail(sentences), remaining |-> sentence]
                 ELSE SplitLoop(Tail(sentences), pushed, sentence)
         ELSE SplitLoop(Tail(sentences), parts,
                        currentPart + (IF currentPart > 0 THEN 1 ELSE 0) + sentence)

\* parts.forEach: every part gets its prefix when there is more than one.
Numbered(parts) ==
    IF Len(parts) > 1
    THEN [i \in 1..Len(parts) |-> PrefixLen(i, Len(parts)) + parts[i]]
    ELSE parts

\* splitMessageIntoParts from the for loop on, with the parts pushed so far:
\* up to the next while loop, or to the end, where the parts are numbered.
SplitFrom(sentences, parts) ==
    LET split == SplitLoop(sentences, parts, 0)
    IN IF split.loops THEN split ELSE [split EXCEPT !.parts = Numbered(@)]

\* splitMessageIntoParts with the room for the prefix taken off every part:
\* a sentence of more than MAX_LENGTH - 30 characters is cut as well.
splitMessageIntoParts_Roomy(sentences) ==
    LET split == SplitLoop(sentences, <<>>, 0)
        n == Len(split.parts)
    IN IF split.loops THEN split
       ELSE [split EXCEPT !.parts =
                IF n > 1
                THEN [i \in 1..n |->
                         PrefixLen(i, n) + Min(split.parts[i], MSG_MAX_LENGTH - SPLIT_MARGIN)]
                ELSE split.parts]

\* splitMessageIntoParts(text): the lengths of the parts, prefix included
\* when there is more than one part.
splitMessageIntoParts(sentences) == SplitFrom(sentences, <<>>)

\* The locals of sendSplitMessage once the text is split, or while it is being
\* split: in the while loop with the parts so far, the sentences still to come
\* and the length of remainingSentence; or at the first ctx.reply, made with
\* the reply id.
AfterSplit(hrec, text, split) ==
    IF split.loops
    THEN [hrec EXCEPT !.pc = "splitting",
                      !.cleanText = text,
                      !.parts = split.parts,
                      !.messages = split.rest,
                      !.part = split.remaining]
    ELSE [hrec EXCEPT !.pc = "part",
                      !.kind = IF TextLen(text) <= MSG_MAX_LENGTH THEN "single" ELSE "parts",
                      !.cleanText = text,
                      !.parts = split.parts,
                      !.messages = <<>>,
                      !.part = 1,
                      !.sent = <<OutMessage(split.parts[1], hrec.msgId)>>]

\* sendSplitMessage(ctx, text, replyToMessageId) up to its first await: no
\* message for an empty text; a text of more than 5 * MAX_SAFE_LENGTH
\* characters is truncated; a text that fits is sent as it is, with the reply
\* id; any other text is split, and its first part is sent with the reply id.
SendSplitMessage(h) ==
    /\ handlers[h].pc = "sendSplit"
    /\ LET given == handlers[h].text
           text == IF TextLen(given) > MAX_SAFE_LENGTH * 5 THEN Truncated(given) ELSE given
           split == IF TextLen(text) <= MSG_MAX_LENGTH
                    THEN [loops |-> FALSE, parts |-> <<TextLen(text)>>,
                          rest |-> <<>>, remaining |-> 0]
                    ELSE splitMessageIntoParts(text)
       IN IF given = <<>> THEN handlers' = [handlers EXCEPT ![h].pc = "sendSplitDone"]
          ELSE handlers' = [handlers EXCEPT ![h] = AfterSplit(handlers[h], text, split)]
    /\ UNCHANGED <<now, heap, appended, userContexts, postContexts, received,
                   posted, pctx, prompt>>

MaxChunks == 3

\* One turn of the while loop of splitMessageIntoParts.  While
\* remainingSentence is not empty a chunk of at most MAX_LENGTH - 30
\* characters is pushed with "..." behind it, and remainingSentence becomes
\* "..." and the rest; when it is empty the for loop goes on.  The first
\* MaxChunks parts pushed are kept; the turns are counted up to MaxChunks and
\* by their parity from there on.
SplitChunk(h) ==
    /\ handlers[h].pc = "splitting"
    /\ LET hrec == handlers[h]
           remainingSentence == hrec.part
           chunk == Min(remainingSentence, MSG_MAX_LENGTH - SPLIT_MARGIN)
       IN IF remainingSentence > 0
          THEN handlers' = [handlers EXCEPT
                  ![h].part = ELLIPSIS + (remainingSentence - chunk),
                  ![h].parts = IF hrec.attempts < MaxChunks
                               THEN Append(@, chunk + ELLIPSIS) ELSE @,
                  ![h].attempts = IF @ <= MaxChunks THEN @ + 1 ELSE MaxChunks]
          ELSE handlers' = [handlers EXCEPT ![h] =
                  AfterSplit([hrec EXCEPT !.attempts = 0], hrec.cleanText,
                             SplitFrom(hrec.messages, hrec.parts))]
    /\ UNCHANGED <<now, heap, appended, userContexts, postContexts, received,
                   posted, pctx, prompt>>

\* A ctx.reply of sendSingleMessage or sendMessageParts settles.  A rejected
\* send with the reply id is made again without it; a send rejected twice is
\* rethrown by sendSingleMessage and passed over by sendMessageParts, which
\* goes on with the next part, sent without a reply id.
PartDone(h, ok) ==
    /\ handlers[h].pc \in {"part", "partAgain"}
    /\ LET hrec == handlers[h] IN
       IF ~ok /\ hrec.pc = "part"
       THEN handlers' = [handlers EXCEPT ![h].pc = "partAgain",
                            ![h].sent = Append(@, OutMessage(hrec.parts[hrec.part], NoReplyTo))]
       ELSE IF ~ok /\ hrec.kind = "single"
       THEN handlers' = [handlers EXCEPT ![h].pc = "sendSplitThrown", ![h].thrown = SendError]
       ELSE IF hrec.part < Len(hrec.parts)
       THEN handlers' = [handlers EXCEPT ![h].pc = "part", ![h].part = @ + 1,
                            ![h].sent = Append(@, OutMessage(hrec.parts[hrec.part + 1], NoReplyTo))]
       ELSE handlers' = [handlers EXCEPT ![h].pc = "sendSplitDone"]
    /\ UNCHANGED <<now, heap, appended, userContexts, postContexts, received,
                   posted, pctx, prompt>>

\* The texts of SpecSplit: up to MaxSentences sentences, each of one of these
\* lengths.
SentenceLens ==
    {3, 2000, MSG_MAX_LENGTH - SPLIT_MARGIN, MSG_MAX_LENGTH - SPLIT_MARGIN + 1,
     MSG_MAX_LENGTH - 6, MSG_MAX_LENGTH - 5, MSG_MAX_LENGTH, MSG_MAX_LENGTH + 1,
     MAX_SAFE_LENGTH * 5 + 1}
MaxSentences == 3
SplitTexts == UNION {[1..n -> SentenceLens] : n \in 0..MaxSentences}

InitSplit ==
    /\ config = DefaultConfig
    /\ update = NoUpdate
    /\ supervisor = NoSupervisor
    /\ workers = NoWorkers
    /\ now = 0
    /\ heap = EmptyMap
    /\ appended = EmptyMap
    /\ userContexts = EmptyMap
    /\ postContexts = EmptyMap
    /\ \E text \in SplitTexts :
          handlers = [h \in Hids |->
                         IF h = 1 THEN [Idle EXCEPT !.pc = "sendSplit", !.text = text,
                                                    !.msgId = 1]
                         ELSE Idle]
    /\ received = 0
    /\ posted = 0
    /\ pctx = NoContext
    /\ prompt = <<>>

NextSplit ==
    \/ SendSplitMessage(1) /\ UNCHANGED dvars
    \/ SplitChunk(1) /\ UNCHANGED dvars
    \/ \E ok \in BOOLEAN : PartDone(1, ok) /\ UNCHANGED dvars

SpecSplit == InitSplit /\ [][NextSplit]_vars

\* C29 as stated: every message that sendSplitMessage sends for a text longer
\* than the maximum message size, prefix included, is at most that size long.
C29_PartsWithinMaxLength ==
    TextLen(handlers[1].text) > MSG_MAX_LENGTH =>
        \A i \in 1..Len(handlers[1].sent) : handlers[1].sent[i].text <= MSG_MAX_LENGTH

\* C29: a sentence of 4091 characters followed by two short ones: the first
\* part was sent with its prefix, 4097 characters in all.
C29_PartOverMaxLength ==
    /\ handlers[1].text = <<MSG_MAX_LENGTH - 5, 3, 3>>
    /\ handlers[1].pc = "part"
    /\ handlers[1].sent = <<OutMessage(MSG_MAX_LENGTH + 1, 1)>>

\* C29: what the parts keep to: a part made of several sentences, or of a
\* sentence of at most MAX_LENGTH - 30 characters, is at most MAX_LENGTH long
\* with its prefix; a part that is one longer sentence exceeds the sentence
\* by its prefix only.
C29_PartsWithinSentenceAndPrefix ==
    \A i \in 1..Len(handlers[1].sent) :
        LET n == Len(handlers[1].parts)
        IN \/ handlers[1].sent[i].text <= MSG_MAX_LENGTH
           \/ /\ n > 1
              /\ \E j \in 1..Len(handlers[1].cleanText) :
                    /\ handlers[1].cleanText[j] > MSG_MAX_LENGTH - SPLIT_MARGIN
                    /\ handlers[1].cleanText[j] <= MSG_MAX_LENGTH
                    /\ \E k \in 1..n :
                          handlers[1].sent[i].text = handlers[1].cleanText[j] + PrefixLen(k, n)

\* C29: a sentence of more than MAX_LENGTH characters: splitMessageIntoParts
\* is still in its while loop after MaxChunks chunks, and nothing was sent.
C29_SplitNeverReturns ==
    /\ handlers[1].pc = "splitting"
    /\ handlers[1].attempts = MaxChunks
    /\ handlers[1].sent = <<>>

(***************************************************************************)
(* The sweep at the suspension points of a direct-message handling.  The   *)
(* clock of the model steps by BASE_TTL_MS; a handling, bounded by the     *)
(* timeouts of its requests, takes far less than that, so here the clock   *)
(* steps only between handlings, while the interval timer fires at any     *)
(* time.                                                                   *)
(***************************************************************************)
QuietTick ==
    /\ \A h \in Hids : handlers[h].pc = "idle"
    /\ SweepTick

NextQuiet ==
    \/ QuietTick
    \/ SweepTimer
    \/ \E r \in BOOLEAN :
          received < MaxSweepMsgs /\ ReceiveDirect(1, 1, r, DefaultText)
             /\ UNCHANGED dvars
    \/ DirectTopicDone(1, "topic A") /\ UNCHANGED dvars
    \/ TypingDone(1) /\ UNCHANGED dvars
    \/ ApiSuccess(1, "reply") /\ UNCHANGED dvars
    \/ SendDone(1, TRUE) /\ UNCHANGED dvars

SpecQuiet == Init /\ [][NextQuiet]_vars

\* The history ends with the user turn and the assistant reply of the
\* handling hrec.
HoldsExchange(context, hrec) ==
    LET n == Len(context.messages)
    IN /\ n >= 2
       /\ context.messages[n - 1] = UserTurn(hrec.cleanText, hrec.msgId)
       /\ context.messages[n] = ChatMessage("assistant", hrec.reply, hrec.msgId, "")

\* C30 as stated: when a direct-message handling completes with its reply
\* sent, the user namespace maps the user's key to the context the handler
\* wrote to, and that context holds the user turn and the assistant reply,
\* also when the sweep ran while the handler was suspended.
C30_ExchangeStoredUnderKey ==
    [][SendDone(1, TRUE) /\ handlers[1].kind = "direct" =>
          /\ handlers[1].key \in DOMAIN userContexts'
          /\ userContexts'[handlers[1].key] = handlers[1].ctx
          /\ HoldsExchange(heap'[userContexts'[handlers[1].key]], handlers[1])]_vars

\* C30: what holds: the context the handler fetched holds the exchange when
\* the reply is sent, and the key is mapped to that context or to none.
C30_ExchangeInFetchedContext ==
    [][SendDone(1, TRUE) /\ handlers[1].kind = "direct" =>
          /\ HoldsExchange(heap[handlers[1].ctx], handlers[1])
          /\ \/ handlers[1].key \notin DOMAIN userContexts'
             \/ userContexts'[handlers[1].key] = handlers[1].ctx]_vars

\* C30: the reply of a second message, a reply to a channel post, is being
\* sent, no time has passed since the message came, and the key of the user is
\* not in the namespace: the sweep removed it while the topic was inferred.
C30_ContextSweptDuringHandling ==
    /\ handlers[1].pc = "send" /\ handlers[1].kind = "direct"
    /\ handlers[1].msgId = 2
    /\ handlers[1].key \notin DOMAIN userContexts
    /\ heap[handlers[1].ctx].lastInteraction = now
    /\ HoldsExchange(heap[handlers[1].ctx], handlers[1])
    /\ Len(heap[handlers[1].ctx].messages) = 4

(***************************************************************************)
(* Two handlings of one user in flight at once: a second direct message of *)
(* the user arrives while the first one awaits its topic, its typing       *)
(* indicator, its completion call or its send.  Every call succeeds.       *)
(***************************************************************************)
NextOverlap ==
    \/ \E h \in Hids, r \in BOOLEAN :
          received < MaxOverlapMsgs /\ ReceiveDirect(h, 1, r, <<Word>>) /\ UNCHANGED dvars
    \/ \E h \in Hids : DirectTopicDone(h, "topic A") /\ UNCHANGED dvars
    \/ \E h \in Hids : TypingDone(h) /\ UNCHANGED dvars
    \/ \E h \in Hids : ApiSuccess(h, "reply") /\ UNCHANGED dvars
    \/ \E h \in Hids : SendDone(h, TRUE) /\ UNCHANGED dvars

SpecOverlap == Init /\ [][NextOverlap]_vars

\* Handler h assembles its prompt in this step: processUserMessage runs up to
\* the await of the typing indicator.
Assembles(h) == handlers[h].pc \in {"idle", "topic"} /\ handlers'[h].pc = "typing"

\* Another handling of the same user key is in flight.
Overlapped(h) ==
    \E g \in Hids \ {h} : handlers[g].pc # "idle" /\ handlers[g].key = handlers'[h].key

HasReminder(messages) == \E i \in 1..Len(messages) : messages[i] = ReminderEntry

C31_ReminderInOverlappedPrompt ==
    /\ handlers[1].pc = "api" /\ handlers[2].pc = "typing"
    /\ handlers[1].ctx = handlers[2].ctx
    /\ heap[handlers[2].ctx].messageCount = REMINDER_INTERVAL
    /\ HasReminder(handlers[2].messages)

\* The gateway call of the direct-message handling of handler 1 fails in this
\* step, or the handling ends after such a failure.
DirectCallFails ==
    /\ handlers[1].kind = "direct"
    /\ \/ handlers[1].pc \in {"api", "backoff"} /\ handlers'[1].pc = "errReply"
       \/ handlers[1].pc = "errReply" /\ handlers[1].thrown # SendError

\* C32: when the gateway call of a direct-message handling fails, the context
\* is left as it was before the failure, through the end of the handling: the
\* user turn of the message is its last entry, no assistant turn answers it,
\* messageCount counts the turns appended, and the context is active.
C32_FailedCallKeepsUserTurn ==
    [][DirectCallFails =>
          LET o == handlers[1].ctx
              c == heap'[o]
          IN /\ o \in DOMAIN heap'
             /\ c = heap[o]
             /\ userContexts'[handlers[1].key] = o
             /\ Last(c.messages) = UserTurn(handlers[1].cleanText, handlers[1].msgId)
             /\ Last(appended'[o]) = UserTurn(handlers[1].cleanText, handlers[1].msgId)
             /\ c.messageCount = Len(appended'[o])
             /\ c.activeConversation]_vars

\* C32 witness: the first message of a user, its gateway call failed: the
\* context holds the user turn alone, with messageCount 1, and is active.
C32_Witness ==
    /\ handlers[1].kind = "direct" /\ handlers[1].pc = "errReply"
    /\ handlers[1].thrown # SendError
    /\ LET c == heap[handlers[1].ctx]
       IN /\ c.messages = <<UserTurn(handlers[1].cleanText, 1)>>
          /\ c.messageCount = 1
          /\ c.activeConversation

\* C32: the next message of the user follows the failed one: the history
\* holds two user turns in a row.
C32_TwoUserTurnsInARow ==
    /\ handlers[1].kind = "direct" /\ handlers[1].pc = "typing"
    /\ LET c == heap[handlers[1].ctx]
       IN /\ Len(c.messages) = 2
          /\ c.messages[1].role = "user" /\ c.messages[2].role = "user"
          /\ c.messages[1].content.id = 1 /\ c.messages[2].content.id = 2
          /\ c.messageCount = 2

\* Both handlers work on the stored context of the user, and its history is
\* every turn appended to it, in the order of the appends.
SameContextNoTurnLost ==
    /\ \A h \in Hids :
          handlers[h].pc # "idle" =>
             /\ handlers[h].key \in DOMAIN userContexts
             /\ userContexts[handlers[h].key] = handlers[h].ctx
    /\ \A k \in DOMAIN userContexts :
          heap[userContexts[k]].messages = appended[userContexts[k]]

\* The position of an assistant turn of the history follows the position of
\* the user turn of the same message, at distance d.
AnswersAt(messages, i, d) ==
    /\ i - d >= 1
    /\ messages[i - d].role = "user"
    /\ messages[i - d].content.id = messages[i].content.id

\* C33 as stated: with two handlings of a user overlapping and both
\* succeeding, both work on the same stored context, no turn is lost, and
\* every assistant turn is appended directly after the user turn it answers.
C33_OverlapAlternates ==
    /\ SameContextNoTurnLost
    /\ \A k \in DOMAIN userContexts :
          LET messages == heap[userContexts[k]].messages
          IN \A i \in 1..Len(messages) :
                messages[i].role = "assistant" => AnswersAt(messages, i, 1)

\* C33: what holds: the same stored context, no turn lost, and every
\* assistant turn somewhere after the user turn it answers.
C33_OverlapKeepsTurns ==
    /\ SameContextNoTurnLost
    /\ \A k \in DOMAIN userContexts :
          LET messages == heap[userContexts[k]].messages
          IN \A i \in 1..Len(messages) :
                messages[i].role = "assistant" =>
                   \E d \in 1..Len(messages) : AnswersAt(messages, i, d)

\* C33: two messages handled with overlapping completion calls, both answered:
\* the history is user 1, user 2, assistant 1, assistant 2.
C33_Interleaved ==
    /\ \A h \in Hids : handlers[h].pc = "idle"
    /\ 1 \in DOMAIN userContexts
    /\ LET messages == heap[userContexts[1]].messages
       IN /\ Len(messages) = 4
          /\ messages[1].role = "user" /\ messages[1].content.id = 1
          /\ messages[2].role = "user" /\ messages[2].content.id = 2
          /\ messages[3].role = "assistant" /\ messages[3].content.id = 1
          /\ messages[4].role = "assistant" /\ messages[4].content.id = 2

\* The sends settle and the loops take their turns.
SpecSplitFair == SpecSplit /\ WF_vars(NextSplit)

SendSplitReturned == handlers[1].pc \in {"sendSplitDone", "sendSplitThrown"}

\* C34 as stated: sendSplitMessage terminates for every text, also for one
\* that holds a sentence longer than the maximum message size.
C34_SendSplitTerminates == <>SendSplitReturned

\* C34: what holds: sendSplitMessage returns or is in the while loop for
\* ever, and it is there only for a text that, truncated if it was too long,
\* holds a sentence of more than MAX_LENGTH characters.
C34_TerminatesWithoutLongSentence ==
    /\ <>(SendSplitReturned \/ [](handlers[1].pc = "splitting"))
    /\ [](handlers[1].pc = "splitting" =>
             \E i \in 1..Len(handlers[1].cleanText) :
                handlers[1].cleanText[i] > MSG_MAX_LENGTH)

\* C34: a text of one sentence of 4097 characters: after three chunks
\* remainingSentence is "..." once more, as it was a turn before, and nothing
\* has been sent.
C34_RemainingNeverEmpty ==
    /\ handlers[1].text = <<MSG_MAX_LENGTH + 1>>
    /\ handlers[1].pc = "splitting"
    /\ handlers[1].part = ELLIPSIS
    /\ handlers[1].parts = <<MSG_MAX_LENGTH - SPLIT_MARGIN + ELLIPSIS,
                             SPLIT_MARGIN + 1 + ELLIPSIS + ELLIPSIS,
                             ELLIPSIS + ELLIPSIS>>
    /\ handlers[1].sent = <<>>

\* The delay of callApiWithRetry is over in this step.
WaitOver(h) == handlers[h].pc = "backoff" /\ handlers'[h].pc # "backoff"

\* C35 as stated: in callApiWithRetry every backoff wait is followed by
\* another completion attempt; after the failure of the last permitted
\* attempt the call fails without waiting; and a call with maxRetries >= 1
\* makes at least one attempt.
C35_EveryWaitThenAttempt ==
    /\ [][\A h \in Calls : WaitOver(h) => handlers'[h].pc = "api"]_vars
    /\ [][\A h \in Calls :
             /\ handlers[h].pc = "api"
             /\ handlers[h].attempts + 1 = handlers[h].maxRetries
             /\ handlers'[h].attempts = handlers[h].maxRetries
             /\ handlers'[h].pc # "returned"
             => /\ handlers'[h].pc = "thrown"
                /\ handlers'[h].waits = handlers[h].waits]_vars
    /\ [](\A h \in Calls : Settled(h) => handlers[h].attempts >= 1)

\* C35: what holds: every wait but the one after the last permitted attempt
\* is followed by another attempt, that one by the throw of the last error
\* with no attempt between; a settled call has made at least one attempt.
C35_EveryWaitButLastThenAttempt ==
    /\ [][\A h \in Calls :
             WaitOver(h) =>
                IF Len(handlers[h].waits) < handlers[h].maxRetries
                THEN handlers'[h].pc = "api"
                ELSE /\ handlers'[h].pc = "thrown"
                     /\ handlers'[h].attempts = handlers[h].attempts
                     /\ handlers'[h].thrown = handlers[h].lastError]_vars
    /\ [](\A h \in Calls : Settled(h) => handlers[h].attempts >= 1)

\* C35: a call with maxRetries = 2 has thrown after two failed attempts and
\* two waits: the wait of 2000 ms was followed by no attempt.
C35_WaitedThenThrown ==
    \E h \in Calls :
        /\ handlers[h].pc = "thrown"
        /\ handlers[h].maxRetries = 2
        /\ handlers[h].attempts = 2
        /\ handlers[h].waits = <<1000, 2000>>

\* callApiWithRetry throws to commentPost in this step.
PostCallFails(h) ==
    /\ handlers[h].kind = "post"
    /\ handlers[h].pc \in {"api", "backoff"}
    /\ handlers'[h].pc = "errReply"

\* commentPost is at the ctx.reply of its catch block after a failed call.
PostCallFailed(h) ==
    /\ handlers[h].kind = "post"
    /\ handlers[h].pc = "errReply"
    /\ handlers[h].thrown.attempt > 0

\* C38: when the gateway call of a channel-post handling fails, the post
\* context got before the call stays in the post namespace under its key with
\* its topic, its history and messageCount are as they were before the call
\* (neither the post text nor a reply is appended), and one fixed error
\* message is sent, without a reply id, and nothing after it.
C38_FailedCommentLeavesContext ==
    /\ [][\A h \in Hids :
             PostCallFails(h) =>
                LET o == handlers[h].ctx IN
                /\ postContexts' = postContexts
                /\ postContexts[handlers[h].key] = o
                /\ heap'[o] = heap[o]
                /\ appended'[o] = appended[o]
                /\ heap'[o].postTopic = handlers[h].topic
                /\ handlers[h].sent = <<>>
                /\ handlers'[h].sent = <<OutMessage("cannot comment", NoReplyTo)>>]_vars
    /\ [][\A h \in Hids :
             PostCallFailed(h) /\ handlers'[h] # handlers[h] =>
                LET o == handlers[h].ctx IN
                /\ handlers'[h] = Idle
                /\ postContexts' = postContexts
                /\ postContexts[handlers[h].key] = o
                /\ heap'[o] = heap[o]]_vars

\* C38 witness: the second post of a channel thread fails at the gateway:
\* its context holds the two turns of the first post and no more, the error
\* message is the only one sent.
C38_Witness ==
    \E h \in Hids :
        /\ PostCallFailed(h)
        /\ handlers[h].sent = <<CommentPostError>>
        /\ handlers[h].ctx \in DOMAIN heap
        /\ heap[handlers[h].ctx].messageCount = 2
        /\ Len(heap[handlers[h].ctx].messages) = 2
        /\ postContexts[handlers[h].key] = handlers[h].ctx

\* C38 witness: a new post fails at the gateway: its context is in the post
\* namespace, empty, with the topic inferred for it.
C38_NewContextStaysEmpty ==
    \E h \in Hids :
        /\ PostCallFailed(h)
        /\ handlers[h].ctx \in DOMAIN heap
        /\ heap[handlers[h].ctx].messages = <<>>
        /\ heap[handlers[h].ctx].messageCount = 0
        /\ heap[handlers[h].ctx].postTopic = "topic A"

\* The context objects of a namespace.
ObjectsOf(contextMap) == {contextMap[key] : key \in DOMAIN contextMap}

\* C39: in every reachable state no context of the post namespace is an
\* active conversation, and none is a context of the user namespace as well;
\* so the sweep deletes a post context exactly when it is older than
\* BASE_TTL_MS, never by ACTIVE_TTL_MS.
C39_PostContextsNeverActive ==
    /\ [](\A key \in DOMAIN postContexts :
             /\ ~heap[postContexts[key]].activeConversation
             /\ postContexts[key] \notin ObjectsOf(userContexts))
    /\ [][cleanupOldContexts =>
             \A key \in DOMAIN postContexts :
                key \in DOMAIN postContexts'
                   <=> ~(now - heap[postContexts[key]].lastInteraction > BASE_TTL_MS)]_vars

\* C39 witness: a post context and the context of an active conversation,
\* both older than BASE_TTL_MS and not older than ACTIVE_TTL_MS: the next sweep
\* deletes the first and keeps the second.
C39_Witness ==
    /\ \E key \in DOMAIN postContexts :
          /\ now - heap[postContexts[key]].lastInteraction > BASE_TTL_MS
          /\ now - heap[postContexts[key]].lastInteraction <= ACTIVE_TTL_MS
          /\ heap[postContexts[key]].messageCount > 0
    /\ \E key \in DOMAIN userContexts :
          /\ heap[userContexts[key]].activeConversation
          /\ now - heap[userContexts[key]].lastInteraction > BASE_TTL_MS
          /\ now - heap[userContexts[key]].lastInteraction <= ACTIVE_TTL_MS

\* C39 witness: the sweep has run: the active conversation is still there,
\* older than BASE_TTL_MS, and the post that was commented has no context.
C39_PostEvictedUserKept ==
    /\ posted > 0
    /\ postContexts = EmptyMap
    /\ \A h \in Hids : handlers[h].pc = "idle"
    /\ \E key \in DOMAIN userContexts :
          /\ heap[userContexts[key]].activeConversation
          /\ now - heap[userContexts[key]].lastInteraction > BASE_TTL_MS

(***************************************************************************)
(* handleIncomingMessage under every comment probability: the constant     *)
(* BOT_DEFAULTS.POSTS.COMMENT_PROBABILITY at 0%, 50% and 100%.             *)
(***************************************************************************)
Probabilities == {0, 50, COMMENT_PROBABILITY}

InitProbability ==
    /\ \E mins \in OverrideMins, p \in Probabilities :
          config = [DefaultConfig EXCEPT !.ignoreMins = mins, !.commentProbability = p]
    /\ update = NoUpdate
    /\ supervisor = NoSupervisor
    /\ workers = NoWorkers
    /\ now = 0
    /\ heap = EmptyMap
    /\ appended = EmptyMap
    /\ userContexts = EmptyMap
    /\ postContexts = EmptyMap
    /\ handlers = [h \in Hids |-> Idle]
    /\ received = 0
    /\ posted = 0
    /\ pctx = NoContext
    /\ prompt = <<>>

SpecProbability == InitProbability /\ [][NextDispatch]_vars

\* The handlings an update has started in this step, of three: the comment
\* handling, the direct handling and the log of an old message.
Triggered ==
    (IF posted' > posted \/ handlers'[1].kind = "post" THEN 1 ELSE 0)
        + (IF received' > received \/ handlers'[1].kind = "direct" THEN 1 ELSE 0)
        + (IF update'.route = "logIgnoredOldMessage" THEN 1 ELSE 0)

\* C40 as stated: for every value of the comment probability an update that
\* is a channel post is never routed to the direct handling; every update
\* triggers at most one of the comment handling, the direct handling and the
\* log of an old message; and a channel post skipped by the probability test
\* creates or changes no user context.
C40_PostNeverHandledDirect ==
    [][LET m == Dispatched IN
          HandleIncomingMessage(1, m) =>
             /\ Triggered <= 1
             /\ ChannelPost(m) =>
                   /\ update'.route # "handleDirectMessage"
                   /\ handlers'[1].kind # "direct"
                   /\ received' = received
             /\ ChannelPost(m) /\ ~(m.random < config.commentProbability) =>
                   /\ userContexts' = userContexts
                   /\ \A o \in ObjectsOf(userContexts) : heap'[o] = heap[o]]_vars

\* C40: what holds: every update triggers at most one of the three; a channel
\* post is routed to the direct handling only when the probability test has
\* skipped it and it mentions the bot or replies to it and is not old; a
\* skipped channel post that is not addressed, or is old, changes nothing; and
\* with the probability of 100% no channel post is skipped.
C40_SkippedPostHandledAsMessage ==
    [][LET m == Dispatched IN
          HandleIncomingMessage(1, m) =>
             /\ Triggered <= 1
             /\ ChannelPost(m) /\ m.random < config.commentProbability =>
                   /\ update'.route = "commentPost"
                   /\ handlers'[1].kind # "direct"
                   /\ userContexts' = userContexts
             /\ ChannelPost(m) /\ ~(m.random < config.commentProbability) =>
                   /\ config.commentProbability < COMMENT_PROBABILITY
                   /\ update'.route = "handleDirectMessage"
                         <=> (m.replyToBot \/ m.mentioned) /\ ~isOldMessage(m)
                   /\ update'.route # "handleDirectMessage" =>
                         UNCHANGED <<heap, userContexts, postContexts, handlers,
                                     received, posted>>]_vars

\* C40: with the probability at 50% a channel post that mentions the bot
\* fails the test (Math.random() gave 0.99) and is in the direct handling: a
\* user context has been created for it.
C40_SkippedPostInDirectHandling ==
    /\ config.commentProbability = 50
    /\ ChannelPost(update)
    /\ update.random = 99
    /\ update.route = "handleDirectMessage"
    /\ handlers[1].kind = "direct"
    /\ handlers[1].ctx \in ObjectsOf(userContexts)
    /\ posted = 0

\* C40: with the probability at 50% a channel post is commented.
C40_PostCommented ==
    /\ config.commentProbability = 50
    /\ ChannelPost(update)
    /\ update.route = "commentPost"
    /\ handlers[1].kind = "post"
    /\ userContexts = EmptyMap

(***************************************************************************)
(* The supervisor (index.ts) and its workers (botWorker.ts): start,        *)
(* readiness and shutdown.                                                 *)
(***************************************************************************)
WorkerIds == {1, 2}
Signals == {"SIGINT", "SIGTERM"}
Triggers == Signals \cup {"uncaughtException"}

GRACE_MS == 5000       \* setTimeout of stopAllWorkers
CHECK_MS == 100        \* setInterval of stopAllWorkers
MaxTriggers == 3       \* termination triggers of a run of SpecProcess

\* A worker just forked: the module botWorker.ts has not run yet.
Forked ==
    [pc |-> "forked", launch |-> "none", ready |-> FALSE, connected |-> TRUE,
     killed |-> FALSE, exitCode |-> NoCode, inbox |-> 0, shutdowns |-> 0,
     pending |-> {}, stopped |-> FALSE]

\* main() has forked a worker for every configuration and registered its
\* listeners.
InitProcess ==
    /\ config = DefaultConfig
    /\ update = NoUpdate
    /\ now = 0
    /\ heap = EmptyMap
    /\ appended = EmptyMap
    /\ userContexts = EmptyMap
    /\ postContexts = EmptyMap
    /\ handlers = [h \in Hids |-> Idle]
    /\ received = 0
    /\ posted = 0
    /\ pctx = NoContext
    /\ prompt = <<>>
    /\ supervisor = [NoSupervisor EXCEPT !.pc = "running", !.once = Signals]
    /\ workers = [w \in WorkerIds |-> Forked]

\* The worker's process ends: the supervisor sees its exit code, the channel
\* is closed.
Exited(worker, exitCode) ==
    [worker EXCEPT !.pc = "exited", !.exitCode = exitCode, !.connected = FALSE,
                   !.inbox = 0, !.pending = {}]

\* The module botWorker.ts runs, to its end: the bot is constructed,
\* bot.launch() is called and is pending, the listeners are registered and
\* "ready" is sent.
WorkerStart(w) ==
    /\ workers[w].pc = "forked"
    /\ workers' = [workers EXCEPT ![w].pc = "up", ![w].launch = "pending",
                                  ![w].ready = TRUE]
    /\ UNCHANGED <<mvars, config, update, supervisor>>

\* TelegramBot.launch resolves: getMe and bot.launch succeeded. The worker
\* logs that the bot is started.
LaunchResolved(w) ==
    /\ workers[w].pc \in {"up", "stopping"}
    /\ workers[w].launch = "pending"
    /\ workers' = [workers EXCEPT ![w].launch = "resolved"]
    /\ UNCHANGED <<mvars, config, update, supervisor>>

\* TelegramBot.launch rejects (getMe or bot.launch failed): the catch of the
\* worker logs the error and calls process.exit(1).
LaunchRejected(w) ==
    /\ workers[w].pc \in {"up", "stopping"}
    /\ workers[w].launch = "pending"
    /\ workers' = [workers EXCEPT ![w] = Exited([@ EXCEPT !.launch = "rejected"], 1)]
    /\ UNCHANGED <<mvars, config, update, supervisor>>

\* worker.on("message") of the supervisor takes a "ready": it logs that the
\* bot is initialized and ready to work.
SupervisorReady(w) ==
    /\ supervisor.pc \in {"running", "stopping"}
    /\ workers[w].ready
    /\ w \notin supervisor.ready
    /\ supervisor' = [supervisor EXCEPT !.ready = @ \cup {w}]
    /\ UNCHANGED <<mvars, config, update, workers>>

\* process.on("message") of the worker takes a "shutdown": bot.stop() and
\* the timer of process.exit(0).
WorkerShutdown(w) ==
    /\ workers[w].pc \in {"up", "stopping"}
    /\ workers[w].inbox > 0
    /\ workers' = [workers EXCEPT ![w].inbox = @ - 1, ![w].pc = "stopping",
                                  ![w].stopped = TRUE]
    /\ UNCHANGED <<mvars, config, update, supervisor>>

\* The timer of process.exit(0) fires.
WorkerExit(w) ==
    /\ workers[w].pc = "stopping"
    /\ workers' = [workers EXCEPT ![w] = Exited(@, 0)]
    /\ UNCHANGED <<mvars, config, update, supervisor>>

\* process.on(signal) of the worker: bot.stop(signal), and no exit.
WorkerSignal(w, signal) ==
    /\ workers[w].pc \in {"up", "stopping"}
    /\ signal \in workers[w].pending
    /\ workers' = [workers EXCEPT ![w].pending = @ \ {signal}, ![w].stopped = TRUE]
    /\ UNCHANGED <<mvars, config, update, supervisor>>

\* process.exit(code) of the supervisor.
SupervisorExit(code) ==
    [supervisor EXCEPT !.pc = "exited", !.exitCode = code]

\* The workers stopAllWorkers waits for.
runningWorkers == {w \in WorkerIds : ~workers[w].killed /\ workers[w].exitCode = NoCode}

\* A termination trigger at the supervisor.  SIGINT and SIGTERM have a
\* listener registered with process.once: it is removed when it runs, and a
\* signal without a listener ends the process.  The listener, and that of
\* uncaughtException, awaits stopAllWorkers and calls process.exit.
\* stopAllWorkers returns at once when isShuttingDown is set; otherwise it
\* sets it, sends "shutdown" to every connected worker and starts the
\* interval and the timeout.
Trigger(trigger) ==
    /\ supervisor.pc \in {"running", "stopping"}
    /\ supervisor.triggers < MaxTriggers
    /\ LET sup == [supervisor EXCEPT !.triggers = @ + 1, !.once = @ \ {trigger}]
           signal == IF trigger = "uncaughtException" THEN "SIGTERM" ELSE trigger
           code == IF trigger = "uncaughtException" THEN 1 ELSE 0
       IN IF trigger \in Signals /\ trigger \notin supervisor.once
          THEN /\ supervisor' = [sup EXCEPT !.pc = "exited", !.exitSignal = trigger]
               /\ UNCHANGED workers
          ELSE IF supervisor.isShuttingDown
          THEN /\ supervisor' = [sup EXCEPT !.pc = "exited", !.exitCode = code]
               /\ UNCHANGED workers
          ELSE /\ supervisor' = [sup EXCEPT !.pc = "stopping", !.isShuttingDown = TRUE,
                                            !.signal = signal, !.code = code,
                                            !.elapsed = 0]
               /\ workers' = [w \in WorkerIds |->
                                 IF workers[w].connected
                                 THEN [workers[w] EXCEPT !.inbox = @ + 1,
                                                         !.shutdowns = @ + 1]
                                 ELSE workers[w]]
    /\ UNCHANGED <<mvars, config, update>>

\* The callback of setInterval in stopAllWorkers, every 100 ms: with no
\* worker left running the promise is resolved, stopAllWorkers returns and
\* the listener calls process.exit.
CheckInterval ==
    /\ supervisor.pc = "stopping"
    /\ supervisor.elapsed < GRACE_MS
    /\ supervisor' =
          IF runningWorkers = {}
          THEN [SupervisorExit(supervisor.code) EXCEPT !.elapsed = @ + CHECK_MS]
          ELSE [supervisor EXCEPT !.elapsed = @ + CHECK_MS]
    /\ UNCHANGED <<mvars, config, update, workers>>

\* The callback of setTimeout in stopAllWorkers, after 5000 ms: every worker
\* still running is sent the signal with worker.kill, the promise is
\* resolved and the listener calls process.exit.
GraceTimeout ==
    /\ supervisor.pc = "stopping"
    /\ supervisor.elapsed = GRACE_MS
    /\ workers' = [w \in WorkerIds |->
                      IF w \in runningWorkers
                      THEN [workers[w] EXCEPT !.killed = TRUE,
                                              !.pending = @ \cup {supervisor.signal}]
                      ELSE workers[w]]
    /\ supervisor' = SupervisorExit(supervisor.code)
    /\ UNCHANGED <<mvars, config, update>>

NextProcess ==
    \/ \E w \in WorkerIds : WorkerStart(w)
    \/ \E w \in WorkerIds : LaunchResolved(w)
    \/ \E w \in WorkerIds : LaunchRejected(w)
    \/ \E w \in WorkerIds : SupervisorReady(w)
    \/ \E w \in WorkerIds : WorkerShutdown(w)
    \/ \E w \in WorkerIds : WorkerExit(w)
    \/ \E w \in WorkerIds, signal \in Signals : WorkerSignal(w, signal)
    \/ \E trigger \in Triggers : Trigger(trigger)
    \/ CheckInterval
    \/ GraceTimeout

SpecProcess == InitProcess /\ [][NextProcess]_vars

\* The supervisor has ended, by process.exit or by a signal.
SupervisorEnded == supervisor.pc = "exited"

\* Every worker has exited, or the grace period is over and every worker
\* that had not exited has been killed.
WorkersDone ==
    \/ \A w \in WorkerIds : workers[w].pc = "exited"
    \/ /\ supervisor.elapsed = GRACE_MS
       /\ \A w \in WorkerIds : workers[w].pc = "exited" \/ workers[w].killed

\* C36 as stated: for every sequence of termination triggers the shutdown
\* message is sent to each connected worker at most once, and the supervisor
\* exits only after every worker has exited, or the 5 seconds are over and
\* the remaining workers were killed.
C36_ExitOnlyAfterWorkers ==
    /\ \A w \in WorkerIds : workers[w].shutdowns <= 1
    /\ SupervisorEnded => WorkersDone

\* C36: what holds: the shutdown message is sent to each worker at most
\* once, and only to a connected one; and a supervisor that got one trigger
\* exits only after every worker has exited or the 5 seconds are over and the
\* remaining workers were killed.
C36_OneTriggerExitsAfterWorkers ==
    /\ \A w \in WorkerIds : workers[w].shutdowns <= 1
    /\ SupervisorEnded /\ supervisor.triggers = 1 => WorkersDone
    /\ supervisor.pc = "stopping" => supervisor.triggers = 1

\* C36: SIGINT and then SIGTERM two ticks later: the supervisor has exited
\* with code 0 while a worker that got the shutdown message is still
\* stopping, not killed, with the grace period not over.
C36_ExitedWhileWorkerStops ==
    /\ SupervisorEnded
    /\ supervisor.triggers = 2
    /\ supervisor.exitCode = 0
    /\ supervisor.elapsed = 2 * CHECK_MS
    /\ \E w \in WorkerIds :
          /\ workers[w].pc = "stopping"
          /\ workers[w].shutdowns = 1
          /\ ~workers[w].killed

\* C36: one trigger: the supervisor has exited after the timeout killed a
\* worker that had not exited.
C36_ExitedAfterKill ==
    /\ SupervisorEnded
    /\ supervisor.triggers = 1
    /\ supervisor.elapsed = GRACE_MS
    /\ \E w \in WorkerIds : workers[w].killed /\ workers[w].pc # "exited"

\* C37 as stated: a worker sends "ready" only after its bot has been
\* initialized (authentication and launch succeeded); a worker whose launch
\* fails exits with a code that is not 0 and never reports ready.
C37_ReadyOnlyAfterLaunch ==
    \A w \in WorkerIds :
        /\ workers[w].ready => workers[w].launch = "resolved"
        /\ w \in supervisor.ready => workers[w].launch = "resolved"
        /\ workers[w].launch = "rejected" =>
              /\ workers[w].pc = "exited"
              /\ workers[w].exitCode # 0
              /\ ~workers[w].ready

\* C37: what holds: a worker has sent "ready" as soon as its module has run,
\* whatever becomes of the launch; a worker whose launch fails exits with
\* code 1.
C37_ReadyOnceModuleHasRun ==
    \A w \in WorkerIds :
        /\ workers[w].ready <=> workers[w].pc # "forked"
        /\ w \in supervisor.ready => workers[w].ready
        /\ workers[w].launch = "rejected" =>
              /\ workers[w].pc = "exited"
              /\ workers[w].exitCode = 1

\* C37: the supervisor has logged that a bot is initialized and ready, and
\* the launch of that bot has failed: the worker has exited with code 1.
C37_ReadyLoggedLaunchFailed ==
    \E w \in WorkerIds :
        /\ w \in supervisor.ready
        /\ workers[w].launch = "rejected"
        /\ workers[w].exitCode = 1

\* C37: a worker has sent "ready" while its launch is pending.
C37_ReadyWhileLaunching ==
    \E w \in WorkerIds :
        /\ workers[w].ready
        /\ workers[w].launch = "pending"
====
